---- MODULE Spec2Model ----
(***************************************************************************)
(* Model of the live trading core of pump_raydium_trading_bot:             *)
(*   - the two process-wide maps USER_LIST and REAL_POOL_INFO              *)
(*     (src/src/statics.rs),                                               *)
(*   - BotService::start_bot / stop_bot / update_trading_params            *)
(*     (src/src/backend/services/bot_service.rs),                          *)
(*   - the pool price monitor task, display_pool_price_change,             *)
(*     build_and_submit_swap_transaction, cleanup_bot_after_sell and the   *)
(*     two stream processors (src/src/main.rs).                            *)
(*                                                                         *)
(* Every step of the model is one lock-protected section of the code (or   *)
(* one stretch of task-local work between two such sections); tasks        *)
(* spawned with tokio::spawn interleave.  A slot keeps the fields the      *)
(* decisions, the pipeline, the confirmation and the accounting read and   *)
(* write; the lock time-outs of start_bot are left out.                    *)
(*                                                                         *)
(* The variable limit fixes the environment of a run: how many             *)
(* transactions the stream delivers, how many decisions fire, how many     *)
(* calls and tasks overlap, which users call the API.  Init draws it from  *)
(* a set of environments; the state after construction is the same in all. *)
(*                                                                         *)
(* Units.  Prices are f64 in the code; the model keeps integer prices and  *)
(* compares percentages by cross-multiplication, so that ">= threshold"    *)
(* is decided exactly.  Reserves are in whole native / whole token units.  *)
(* Times are milliseconds.  Balance deltas and profit are lamports (the    *)
(* code divides the profit by 10^9 to show it in SOL).                     *)
(***************************************************************************)
EXTENDS Integers, Sequences, FiniteSets, TLC

VARIABLES
    repo,            \* bot_repo: user -> pool_address of the stored BotSettings
    USER_LIST,       \* statics::USER_LIST, a Vec<UserBotData>
    REAL_POOL_INFO,  \* statics::REAL_POOL_INFO, HashMap<pool, Vec<RealPoolInfo>>
    api,             \* per user: the start_bot / stop_bot call in flight
    evtasks,         \* spawned process_user_data tasks
    monitor,         \* the pool price monitor task: slots of the snapshot still to visit
    dectasks,        \* tasks spawned by display_pool_price_change
    submitted,       \* transactions the relay accepted, by signature number
    count,           \* how many events were delivered and decisions fired so far
    now,             \* the wall clock, in ticks
    trades,          \* the TradeRecords that save_trade_metrics persisted
    limit,           \* what the environment of this run may do (fixed by Init)
    probe,           \* one call of a pure function on drawn inputs
    outcomes,        \* what build_and_submit_swap_transaction returned, per decision task
    deferred         \* insertions start_bot handed to a spawned retry

vars == <<repo, USER_LIST, REAL_POOL_INFO, api, evtasks, monitor, dectasks,
          submitted, trades, count, now, limit, probe, outcomes, deferred>>

----------------------------------------------------------------------------
(* Bounds of the model *)

MaxEvents == 3
MaxDecisions == 2
MaxTicks == 1
MaxOverlap == 2

Users == {"u1", "u2"}
Pools == {"p1", "p2"}

\* A pool belongs to exactly one AMM program; the processors skip the
\* transactions that mention the other program.
Family(p) == IF p = "p1" THEN "raydium" ELSE "pumpswap"

\* The decimals of the token's mint (ui_token_amount.decimals)
TokenDecimals == 2

\* (native reserve, token reserve) pairs an observed swap can leave behind:
\* whole native units and atomic token units.
ReservePairs == {<<10, 100>>, <<11, 100>>, <<13, 100>>, <<10, 0>>, <<0, 100>>}

\* The pairs with something on both sides of the pool
PositivePairs == {r \in ReservePairs : r[1] > 0 /\ r[2] > 0}

\* One tick of the clock, in milliseconds.
NowMs(t) == t * 1001

NoSig == 0
None == -1

\* Option<T> of the fields that can hold a negative number
NoValue == <<>>
Some(x) == <<x>>
UnwrapOr(o, d) == IF o = NoValue THEN d ELSE o[1]

\* Fees are kept in hundredths of a lamport: a fresh slot starts with
\* fee 0.01, an observed transaction adds its fee of 5 lamports
\* (metadata.transaction_metadata.meta.fee).
InitialFee == 1
EventFee == 500

\* BotSettings of the repository (models/bot.rs); the values lie in the
\* validated ranges.  auto_exit is in seconds, the slippages are percents.
BotSetting(u) ==
    [entry_percent |-> 10, take_profit |-> 10, stop_loss |-> 5, auto_exit |-> 1,
     buy_sol_amount |-> 10, entry_slippage |-> 5, exit_slippage |-> 10,
     confirm_service |-> IF u = "u1" THEN "JITO" ELSE "NOZOMI"]

----------------------------------------------------------------------------
(* The position store *)

\* RealPoolInfo as start_bot and process_user_data construct it.
InitialPoolInfo(u, p, time_ms) ==
    [user_id |-> u, pool_id |-> p, auto_exit |-> BotSetting(u).auto_exit,
     pool_price |-> 0, latest_pool_price |-> 0, swap_buy_ixs |-> <<>>,
     is_bought |-> FALSE, bought_price |-> None, bought_at |-> None,
     signature |-> NoSig, start_time |-> time_ms, last_profit_sol |-> NoValue,
     last_input_lamports_delta |-> NoValue, last_output_lamports_delta |-> NoValue,
     last_roi_pct |-> NoValue, last_duration |-> NoValue, fee |-> InitialFee]

HasBucket(store, p) == p \in DOMAIN store

\* All slots of user u in bucket p, in vector order.
UserSlots(store, p, u) ==
    IF HasBucket(store, p)
    THEN SelectSeq(store[p], LAMBDA s : s.user_id = u)
    ELSE <<>>

HasSlot(store, p, u) == UserSlots(store, p, u) # <<>>

\* "for info in pool_infos { if info.user_id == user_id { x = info.f } }":
\* the last matching slot decides.
LastSlot(store, p, u) == UserSlots(store, p, u)[Len(UserSlots(store, p, u))]

\* "for info in pool_infos { if info.user_id == user_id { info.f = v } }"
SetField(store, p, u, Upd(_)) ==
    [store EXCEPT ![p] =
        [i \in DOMAIN @ |-> IF @[i].user_id = u THEN Upd(@[i]) ELSE @[i]]]

\* (a cleanup that removes nothing)
RetainAll(store, u) == store

\* (a retain that keeps the buckets it emptied)
RetainOthersKeepBuckets(store, u) == [p \in DOMAIN store |-> SelectSeq(store[p], LAMBDA s : s.user_id # u)]

\* real_pool_info.retain(|_, infos| { infos.retain(|i| i.user_id != u); !infos.is_empty() })
RetainOthers(store, u) ==
    LET rest(p) == SelectSeq(store[p], LAMBDA s : s.user_id # u)
        keep == {p \in DOMAIN store : rest(p) # <<>>}
    IN  [p \in keep |-> rest(p)]

\* get_mut(pool).push(info), or insert(pool, vec![info]) when the bucket is missing
PushOrInsert(store, p, info) ==
    IF HasBucket(store, p)
    THEN [store EXCEPT ![p] = Append(@, info)]
    ELSE [q \in DOMAIN store \cup {p} |-> IF q = p THEN <<info>> ELSE store[q]]

\* real_pool_info.insert(pool, vec![info]): replaces a bucket that exists
InsertBucket(store, p, info) ==
    [q \in DOMAIN store \cup {p} |-> IF q = p THEN <<info>> ELSE store[q]]

\* (a registry clean-up that removes nothing)
RetainEveryUser(list, u) == list

\* user_list.retain(|x| x.user_id != u)
RetainUsers(list, u) == SelectSeq(list, LAMBDA x : x.user_id # u)

\* (a signature write whose guard is taken before the relay is awaited)
GuardsHeldThroughSend(pc) == IF pc = "send" THEN {"REAL_POOL_INFO"} ELSE IF pc = "stop_remove_store" THEN {"USER_LIST"} ELSE {}

\* (a cleanup after the exit whose store guard lives until the function ends)
GuardsHeldInCleanup(pc) == IF pc = "remove_users" THEN {"REAL_POOL_INFO"} ELSE IF pc = "stop_remove_store" THEN {"USER_LIST"} ELSE {}

\* The write guards that are alive while a call or task is suspended at pc.
\* Every write section of REAL_POOL_INFO is a block (or an explicit drop)
\* with no .await inside; stop_bot alone keeps a guard, USER_LIST's, while
\* it awaits the store's lock.
GuardsHeldAt(pc) == IF pc = "stop_remove_store" THEN {"USER_LIST"} ELSE {}

\* The lock a call or task suspended at pc awaits: USER_LIST.write() in
\* start_bot, stop_bot and cleanup_bot_after_sell, REAL_POOL_INFO's lock in
\* every other section of the two globals; an idle call, the repository
\* load and the simulation await no lock
AwaitedAt(pc) ==
    IF pc \in {"start_add_user", "stop_remove_users", "remove_users"} THEN "USER_LIST"
    ELSE IF pc \in {"idle", "start_load", "submit"} THEN "none"
    ELSE "REAL_POOL_INFO"

\* stop_bot keeps the USER_LIST write guard while it awaits the store's lock.
UserListLocked == \E u \in Users : "USER_LIST" \in GuardsHeldAt(api[u].pc)

\* The calls and spawned tasks that are under way
InFlight ==
    Cardinality(evtasks) + Cardinality(dectasks)
    + Cardinality({u \in Users : api[u].pc # "idle"})
    + (IF monitor # <<>> THEN 1 ELSE 0)
    + Cardinality(deferred)

\* The environment lets at most limit.overlap calls and tasks run at once
Room(n) == n <= limit.overlap

----------------------------------------------------------------------------
(* BotService: update_trading_params, start_bot, stop_bot *)

IdleCall == [pc |-> "idle", pool_id |-> "p1", is_bought |-> FALSE]

\* PUT /bots/trading with a pool_address
UpdateTradingParams(u, p) ==
    /\ Room(InFlight + 1)
    /\ p # repo[u]
    /\ repo' = [repo EXCEPT ![u] = p]
    /\ UNCHANGED <<deferred, outcomes, limit, probe, trades, USER_LIST, REAL_POOL_INFO, api, evtasks, monitor,
                   dectasks, submitted, count, now>>

\* start_bot, simple_cleanup: USER_LIST.retain
StartCleanupUsers(u) ==
    /\ api[u].pc = "idle"
    /\ Room(InFlight + 1)
    /\ ~UserListLocked
    /\ USER_LIST' = RetainUsers(USER_LIST, u)
    /\ api' = [api EXCEPT ![u].pc = "start_cleanup_store"]
    /\ UNCHANGED <<deferred, outcomes, limit, probe, trades, repo, REAL_POOL_INFO, evtasks, monitor, dectasks,
                   submitted, count, now>>

\* start_bot, simple_cleanup: REAL_POOL_INFO.retain
StartCleanupStore(u) ==
    /\ api[u].pc = "start_cleanup_store"
    /\ REAL_POOL_INFO' = RetainOthers(REAL_POOL_INFO, u)
    /\ api' = [api EXCEPT ![u].pc = "start_load"]
    /\ UNCHANGED <<deferred, outcomes, limit, probe, trades, repo, USER_LIST, evtasks, monitor, dectasks, submitted, count, now>>

\* start_bot: user_repo.find_by_id, bot_repo.find_by_user_id; pool_id = pool_address
StartLoad(u) ==
    /\ api[u].pc = "start_load"
    /\ api' = [api EXCEPT ![u].pc = "start_add_user", ![u].pool_id = repo[u]]
    /\ UNCHANGED <<deferred, outcomes, limit, probe, trades, repo, USER_LIST, REAL_POOL_INFO, evtasks, monitor, dectasks,
                   submitted, count, now>>

\* start_bot: USER_LIST.write: retain, then push(user_bot_data)
StartAddUser(u) ==
    /\ api[u].pc = "start_add_user"
    /\ ~UserListLocked
    /\ USER_LIST' = Append(RetainUsers(USER_LIST, u),
                           [user_id |-> u, pool_id |-> api[u].pool_id])
    /\ api' = [api EXCEPT ![u].pc = "start_add_store"]
    /\ UNCHANGED <<deferred, outcomes, limit, probe, trades, repo, REAL_POOL_INFO, evtasks, monitor, dectasks, submitted,
                   count, now>>

\* start_bot: REAL_POOL_INFO.write: retain, then push / insert the fresh slot
StartAddStore(u) ==
    /\ api[u].pc = "start_add_store"
    /\ REAL_POOL_INFO' = PushOrInsert(RetainOthers(REAL_POOL_INFO, u), api[u].pool_id,
                                      InitialPoolInfo(u, api[u].pool_id, NowMs(now)))
    /\ api' = [api EXCEPT ![u] = IdleCall]
    /\ UNCHANGED <<deferred, outcomes, limit, probe, trades, repo, USER_LIST, evtasks, monitor, dectasks, submitted, count, now>>

\* start_bot, simple_cleanup: timeout(500 ms, USER_LIST.write()) elapses
\* while stop_bot keeps the guard; the registry cleanup is skipped
StartCleanupTimeout(u) ==
    /\ api[u].pc = "idle"
    /\ Room(InFlight + 1)
    /\ UserListLocked
    /\ api' = [api EXCEPT ![u].pc = "start_cleanup_store"]
    /\ UNCHANGED <<deferred, outcomes, limit, probe, trades, repo, USER_LIST, REAL_POOL_INFO, evtasks,
                   monitor, dectasks, submitted, count, now>>

\* start_bot: timeout(500 ms, USER_LIST.write()) elapses while stop_bot
\* keeps the guard; the push is handed to a spawned task and start_bot goes on
StartAddUserTimeout(u) ==
    /\ api[u].pc = "start_add_user"
    /\ UserListLocked
    /\ Room(InFlight + 1)
    /\ deferred' = deferred \cup {[user_id |-> u, pool_id |-> api[u].pool_id]}
    /\ api' = [api EXCEPT ![u].pc = "start_add_store"]
    /\ UNCHANGED <<outcomes, limit, probe, trades, repo, USER_LIST, REAL_POOL_INFO, evtasks, monitor,
                   dectasks, submitted, count, now>>

\* The spawned retry after its sleep: one USER_LIST.try_write(); on Ok
\* retain and push, on Err nothing
TryWrite(list, d, locked) == IF locked THEN list ELSE Append(RetainUsers(list, d.user_id), d)

\* The spawned retry of start_bot runs to its end
DeferredAddUser(d) ==
    /\ d \in deferred
    /\ USER_LIST' = TryWrite(USER_LIST, d, UserListLocked)
    /\ deferred' = deferred \ {d}
    /\ UNCHANGED <<outcomes, limit, probe, trades, repo, REAL_POOL_INFO, api, evtasks, monitor,
                   dectasks, submitted, count, now>>

\* The is_bought that stop_bot reads: under the pool_address of the repository.
StopIsBought(store, p, u) ==
    IF HasSlot(store, p, u) THEN LastSlot(store, p, u).is_bought ELSE FALSE

\* stop_bot: bot_repo.find_by_user_id, then the first REAL_POOL_INFO section
StopRead(u) ==
    /\ api[u].pc = "idle"
    /\ Room(InFlight + 1)
    /\ LET b == StopIsBought(REAL_POOL_INFO, repo[u], u)
       IN  api' = [api EXCEPT ![u] =
                     [pc |-> IF b THEN "stop_sell" ELSE "stop_remove_users",
                      pool_id |-> repo[u], is_bought |-> b]]
    /\ UNCHANGED <<deferred, outcomes, limit, probe, trades, repo, USER_LIST, REAL_POOL_INFO, evtasks, monitor,
                   dectasks, submitted, count, now>>

\* stop_bot, !is_bought: USER_LIST.write, retain; the guard stays held
StopRemoveUsers(u) ==
    /\ api[u].pc = "stop_remove_users"
    /\ ~UserListLocked
    /\ USER_LIST' = RetainUsers(USER_LIST, u)
    /\ api' = [api EXCEPT ![u].pc = "stop_remove_store"]
    /\ UNCHANGED <<deferred, outcomes, limit, probe, trades, repo, REAL_POOL_INFO, evtasks, monitor, dectasks, submitted,
                   count, now>>

\* stop_bot, !is_bought: REAL_POOL_INFO.write, retain; both guards dropped
StopRemoveStore(u) ==
    /\ api[u].pc = "stop_remove_store"
    /\ REAL_POOL_INFO' = RetainOthers(REAL_POOL_INFO, u)
    /\ api' = [api EXCEPT ![u] = IdleCall]
    /\ UNCHANGED <<deferred, outcomes, limit, probe, trades, repo, USER_LIST, evtasks, monitor, dectasks, submitted, count, now>>

\* stop_bot, is_bought: auto_exit = 0 on the slot under the repository's pool
StopSell(u) ==
    /\ api[u].pc = "stop_sell"
    /\ REAL_POOL_INFO' =
          IF HasBucket(REAL_POOL_INFO, api[u].pool_id)
          THEN SetField(REAL_POOL_INFO, api[u].pool_id, u,
                        LAMBDA s : [s EXCEPT !.auto_exit = 0])
          ELSE REAL_POOL_INFO
    /\ api' = [api EXCEPT ![u] = IdleCall]
    /\ UNCHANGED <<deferred, outcomes, limit, probe, trades, repo, USER_LIST, evtasks, monitor, dectasks, submitted, count, now>>

----------------------------------------------------------------------------
(* The stream processors: process and process_user_data *)

\* (the quotient without the guard on the divisor; f64 division by 0.0
\* does not fail, a number other than 0.0 comes out)
PoolPriceUnguarded(sol_reserve, token_reserve) ==
    IF token_reserve > 0 THEN (sol_reserve * 10^TokenDecimals) \div token_reserve ELSE sol_reserve

\* pool_price_sol = (native / 10^9) / (token / 10^decimals), 0.0 when the
\* token reserve is 0; the native reserve is in whole units already
PoolPrice(sol_reserve, token_reserve) ==
    IF token_reserve > 0 THEN (sol_reserve * 10^TokenDecimals) \div token_reserve ELSE 0

\* pre_balances[idx] and post_balances[idx] of the user's wrapped-native
\* account in a transaction of the bot: a buy spends lamports, a sell
\* brings lamports in.
WsolBalances(leg) == IF leg = "buy" THEN <<5, 3>> ELSE <<3, 6>>

\* The users of the USER_LIST snapshot whose pool is in the transaction
Interested(list, p) == {list[i].user_id : i \in {j \in DOMAIN list : list[j].pool_id = p}}

\* Both processors: read USER_LIST, spawn one process_user_data per interested
\* user.  sig = NoSig is a foreign transaction; a transaction of the bot
\* carries the user's wrapped-native account and can be decoded more than once.
Process(p, r, sig) ==
    /\ count.events < limit.events
    /\ ~UserListLocked
    /\ sig # NoSig => submitted[sig].pool_id = p
    /\ Interested(USER_LIST, p) # {}
    /\ Room(InFlight + Cardinality(Interested(USER_LIST, p)))
    /\ evtasks' = evtasks \cup
          {[ev |-> count.events + 1, user_id |-> u, pool_id |-> p,
            reserves |-> r, price |-> PoolPrice(r[1], r[2]), sig |-> sig,
            wsol |-> (sig # NoSig /\ submitted[sig].user_id = u),
            pre_lamports |-> IF sig = NoSig THEN 0
                             ELSE WsolBalances(submitted[sig].leg)[1],
            post_lamports |-> IF sig = NoSig THEN 0
                              ELSE WsolBalances(submitted[sig].leg)[2],
            pc |-> "check", has_bought |-> FALSE, output_lamports_delta |-> 0,
            last_output_lamports_delta |-> NoValue, profit_sol |-> 0,
            last_input_lamports |-> NoValue, start_time |-> 0]
             : u \in Interested(USER_LIST, p)}
    /\ submitted' = IF sig = NoSig THEN submitted
                     ELSE [submitted EXCEPT ![sig].seen = TRUE]
    /\ count' = [count EXCEPT !.events = @ + 1]
    /\ UNCHANGED <<deferred, outcomes, limit, probe, trades, repo, USER_LIST, REAL_POOL_INFO, api, monitor, dectasks, now>>

Move(t, pc) == evtasks' = (evtasks \ {t}) \cup {[t EXCEPT !.pc = pc]}
Finish(t) == evtasks' = evtasks \ {t}

\* process_user_data: pool_exists = real_pool_info.contains_key(pool_id)
CheckPool(t) ==
    /\ t.pc = "check"
    /\ Move(t, IF HasBucket(REAL_POOL_INFO, t.pool_id) THEN "check_user" ELSE "insert")
    /\ UNCHANGED <<deferred, outcomes, limit, probe, trades, repo, USER_LIST, REAL_POOL_INFO, api, monitor, dectasks,
                   submitted, count, now>>

\* process_user_data, !pool_exists: real_pool_info.insert(pool_id, vec![initial])
InsertInitial(t) ==
    /\ t.pc = "insert"
    /\ REAL_POOL_INFO' = InsertBucket(REAL_POOL_INFO, t.pool_id,
                                      InitialPoolInfo(t.user_id, t.pool_id, NowMs(now)))
    /\ Move(t, "price")
    /\ UNCHANGED <<deferred, outcomes, limit, probe, trades, repo, USER_LIST, api, monitor, dectasks, submitted, count, now>>

\* process_user_data, pool_exists: user_exists = pool_infos.iter().any(..)
CheckUser(t) ==
    /\ t.pc = "check_user"
    /\ Move(t, IF HasSlot(REAL_POOL_INFO, t.pool_id, t.user_id) THEN "price" ELSE "push")
    /\ UNCHANGED <<deferred, outcomes, limit, probe, trades, repo, USER_LIST, REAL_POOL_INFO, api, monitor, dectasks,
                   submitted, count, now>>

\* process_user_data, !user_exists: get_mut(pool_id) -> push(initial)
PushInitial(t) ==
    /\ t.pc = "push"
    /\ REAL_POOL_INFO' =
          IF HasBucket(REAL_POOL_INFO, t.pool_id)
          THEN [REAL_POOL_INFO EXCEPT ![t.pool_id] =
                   Append(@, InitialPoolInfo(t.user_id, t.pool_id, NowMs(now)))]
          ELSE REAL_POOL_INFO
    /\ Move(t, "price")
    /\ UNCHANGED <<deferred, outcomes, limit, probe, trades, repo, USER_LIST, api, monitor, dectasks, submitted, count, now>>

\* real_pool_info.get(pool_id).unwrap() on a missing bucket: the task panics
Panics(t) == ~HasBucket(REAL_POOL_INFO, t.pool_id)

\* process_user_data: info.latest_pool_price = pool_price_sol
WritePrice(t) ==
    /\ t.pc = "price"
    /\ IF Panics(t)
       THEN Finish(t) /\ UNCHANGED REAL_POOL_INFO
       ELSE /\ REAL_POOL_INFO' = SetField(REAL_POOL_INFO, t.pool_id, t.user_id,
                                    LAMBDA s : [s EXCEPT !.latest_pool_price = t.price])
            /\ Move(t, "read_bought")
    /\ UNCHANGED <<deferred, outcomes, limit, probe, trades, repo, USER_LIST, api, monitor, dectasks, submitted, count, now>>

\* (a rebuild whose abort would drop the instructions prepared before)
AbortRebuildClears(store, p, u) ==
    SetField(store, p, u, LAMBDA s : [s EXCEPT !.swap_buy_ixs = <<>>])

\* process_user_data: `return Ok(())` on a failed balance lookup, before the
\* section that writes info.swap_buy_ixs: the store is as it was
AbortRebuild(store, p, u) == store

\* process_user_data: has_bought = info.is_bought, then the quote; the RPC
\* balance lookups can fail (raydium: only on the sell leg), which returns.
ReadBought(t, rpc_ok) ==
    /\ t.pc = "read_bought"
    /\ IF Panics(t)
       THEN Finish(t) /\ UNCHANGED REAL_POOL_INFO
       ELSE LET b == IF HasSlot(REAL_POOL_INFO, t.pool_id, t.user_id)
                     THEN LastSlot(REAL_POOL_INFO, t.pool_id, t.user_id).is_bought
                     ELSE FALSE
                rpc == b \/ Family(t.pool_id) = "pumpswap"
            IN  /\ ~rpc => rpc_ok
                /\ IF rpc_ok
                   THEN /\ evtasks' = (evtasks \ {t}) \cup
                               {[t EXCEPT !.pc = "write_ixs", !.has_bought = b]}
                        /\ UNCHANGED REAL_POOL_INFO
                   ELSE /\ Finish(t)
                        /\ REAL_POOL_INFO' = AbortRebuild(REAL_POOL_INFO, t.pool_id, t.user_id)
    /\ UNCHANGED <<deferred, outcomes, limit, probe, trades, repo, USER_LIST, api, monitor, dectasks,
                   submitted, count, now>>

\* The user's token balance that the RPC reports on the sell leg
TokenBalance == 40

\* amount_in: buy_sol_amount (in the unit of the native reserve) while not
\* bought, the token balance while bought
AmountIn(u, has_bought) == IF has_bought THEN TokenBalance ELSE BotSetting(u).buy_sol_amount

\* An instruction: the program's operation, the account it is about, the
\* amount it moves and the bound it sets on the other side of a swap
Ix(op, account, amount, quote) == [op |-> op, account |-> account, amount |-> amount, quote |-> quote]

\* get_create_idempotent_ata_ix: both associated token accounts
CreateIdempotentAtaIx == <<Ix("create_ata_idempotent", "base", 0, 0), Ix("create_ata_idempotent", "quote", 0, 0)>>

\* get_wrap_sol: system transfer into the wrapped-native account, sync_native
WrapSol(lamports) == <<Ix("transfer", "wsol", lamports, 0), Ix("sync_native", "wsol", 0, 0)>>

\* get_close_wsol: close_account of the wrapped-native account
CloseWsol == Ix("close_account", "wsol", 0, 0)

\* raydium: amount_out = 0.997 * (1 - slippage / 100) * amount_in *
\* output_reserve / (input_reserve + amount_in), cast to u64; the reserves
\* are those of the observed swap, whose input is the native side
MinimumAmountOut(amount_in, input_reserve, output_reserve, slippage) ==
    (997 * (100 - slippage) * amount_in * output_reserve) \div (100000 * (input_reserve + amount_in))

\* RaydiumV4Process::process_user_data: ix = create-ata pair, wrap-sol when
\* !has_bought, the swap, close-wsol when !has_bought
RaydiumIxs(u, has_bought, r) ==
    LET amount_in == AmountIn(u, has_bought)
        slippage == IF has_bought THEN BotSetting(u).exit_slippage ELSE BotSetting(u).entry_slippage
        swap == Ix("swap_base_in", IF has_bought THEN "token" ELSE "wsol", amount_in,
                   MinimumAmountOut(amount_in, r[1], r[2], slippage))
    IN  CreateIdempotentAtaIx
        \o (IF has_bought THEN <<>> ELSE WrapSol(amount_in))
        \o <<swap>>
        \o (IF has_bought THEN <<>> ELSE <<CloseWsol>>)

\* sol_token_quote(amount, virtual_sol_reserves, virtual_token_reserves, true)
\* = virtual_token_reserves / (amount + virtual_sol_reserves) * amount as u64
SolTokenQuote(amount, virtual_sol_reserves, virtual_token_reserves) ==
    IF amount + virtual_sol_reserves > 0
    THEN (virtual_token_reserves * amount) \div (amount + virtual_sol_reserves)
    ELSE 0

\* `x as u64` of an f64: truncation, and 0 for a negative number
AsU64(numerator, denominator) == IF numerator < 0 THEN 0 ELSE numerator \div denominator

\* lamports_with_slippage = required * 1.0025 * (1.0 + slippage) as u64 on
\* the buy leg (sign 1), (1.0 - slippage) on the sell leg (sign -1); the
\* setting is multiplied as it is stored
WithSlippage(required, sign, slippage) == AsU64(required * 10025 * (1 + sign * slippage), 10000)

\* PumpSwapProcess::process_user_data on a pool whose quote mint is the
\* wrapped native mint: buy = create-ata pair, wrap of amount_in * 1.1, the
\* buy instruction; sell = the sell instruction, close-wsol.  The pool
\* reserves are read over RPC; they are those the observed swap left.
PumpSwapIxs(u, has_bought, r) ==
    LET amount_in == AmountIn(u, has_bought)
    IN  IF has_bought
        THEN <<Ix("sell", "token", amount_in,
                  WithSlippage(SolTokenQuote(amount_in, r[2], r[1]), -1, BotSetting(u).exit_slippage)),
               CloseWsol>>
        ELSE CreateIdempotentAtaIx
             \o WrapSol((amount_in * 11) \div 10)
             \o <<Ix("buy", "wsol", SolTokenQuote(amount_in, r[1], r[2]),
                      WithSlippage(SolTokenQuote(amount_in, r[1], r[2]), 1, BotSetting(u).entry_slippage))>>

\* The instruction list process_user_data prepares for user u on pool p
PreparedIxs(p, u, has_bought, r) ==
    IF Family(p) = "raydium" THEN RaydiumIxs(u, has_bought, r) ELSE PumpSwapIxs(u, has_bought, r)

\* The swap instructions of a list
SwapOps == {"swap_base_in", "buy", "sell"}

\* The side a transaction of the bot trades: it spends wrapped native (buy)
\* or tokens (sell)
LegOf(ixs) ==
    IF \E i \in DOMAIN ixs : ixs[i].op \in SwapOps /\ ixs[i].account = "wsol"
    THEN "buy" ELSE "sell"

\* process_user_data: info.swap_buy_ixs = ix
WriteIxs(t) ==
    /\ t.pc = "write_ixs"
    /\ IF Panics(t)
       THEN Finish(t) /\ UNCHANGED REAL_POOL_INFO
       ELSE /\ REAL_POOL_INFO' = SetField(REAL_POOL_INFO, t.pool_id, t.user_id,
                     LAMBDA s : [s EXCEPT !.swap_buy_ixs =
                                     PreparedIxs(t.pool_id, t.user_id, t.has_bought, t.reserves)])
            /\ Move(t, "read_sig")
    /\ UNCHANGED <<deferred, outcomes, limit, probe, trades, repo, USER_LIST, api, monitor, dectasks, submitted, count, now>>

\* if let Some(sig) = sent_signature { if sig == metadata_signature {..} }
SignatureMatches(sent, sig) == sent # NoSig /\ sent = sig

\* process_user_data: sent_signature and public_key are read from the slot
\* (public_key.unwrap() panics without a slot); the wrapped-native account
\* must be among the account keys; then the signatures are compared.
ReadSignature(t) ==
    /\ t.pc = "read_sig"
    /\ IF Panics(t) \/ ~HasSlot(REAL_POOL_INFO, t.pool_id, t.user_id)
       THEN Finish(t)
       ELSE IF t.wsol /\ SignatureMatches(
                  LastSlot(REAL_POOL_INFO, t.pool_id, t.user_id).signature, t.sig)
            THEN Move(t, "toggle")
            ELSE Finish(t)
    /\ UNCHANGED <<deferred, outcomes, limit, probe, trades, repo, USER_LIST, REAL_POOL_INFO, api, monitor, dectasks,
                   submitted, count, now>>

\* What a confirmation does to the slot: has_bought = !info.is_bought;
\* info.is_bought = has_bought.  The signature stays on the slot.
Confirm(s) == [s EXCEPT !.is_bought = ~s.is_bought]

\* process_user_data: the toggle section; the local has_bought becomes the
\* new is_bought of the slot (false when no slot matched)
Toggle(t) ==
    /\ t.pc = "toggle"
    /\ IF Panics(t)
       THEN Finish(t) /\ UNCHANGED REAL_POOL_INFO
       ELSE /\ REAL_POOL_INFO' = SetField(REAL_POOL_INFO, t.pool_id, t.user_id, Confirm)
            /\ evtasks' = (evtasks \ {t}) \cup
                  {[t EXCEPT !.pc = "fee",
                             !.has_bought =
                                 IF HasSlot(REAL_POOL_INFO, t.pool_id, t.user_id)
                                 THEN ~LastSlot(REAL_POOL_INFO, t.pool_id, t.user_id).is_bought
                                 ELSE FALSE]}
    /\ UNCHANGED <<deferred, outcomes, limit, probe, trades, repo, USER_LIST, api, monitor, dectasks, submitted, count, now>>

\* (a fee section that stores the fee of the event instead of adding it)
ReplaceFee(s, metadata_fee) == [s EXCEPT !.fee = metadata_fee]

\* info.fee += metadata_fee as f64
AccrueFee(s, metadata_fee) == [s EXCEPT !.fee = @ + metadata_fee]

\* process_user_data: the fee section
AddFee(t) ==
    /\ t.pc = "fee"
    /\ IF Panics(t)
       THEN Finish(t) /\ UNCHANGED REAL_POOL_INFO
       ELSE /\ REAL_POOL_INFO' = SetField(REAL_POOL_INFO, t.pool_id, t.user_id,
                                    LAMBDA s : AccrueFee(s, EventFee))
            /\ Move(t, "delta")
    /\ UNCHANGED <<deferred, outcomes, limit, probe, trades, repo, USER_LIST, api, monitor, dectasks, submitted, count, now>>

\* process_user_data: has_bought: last_input_lamports_delta = pre - post, and
\* the task is over; else last_output_lamports_delta = post - pre
WriteDelta(t) ==
    /\ t.pc = "delta"
    /\ IF Panics(t)
       THEN Finish(t) /\ UNCHANGED REAL_POOL_INFO
       ELSE IF t.has_bought
            THEN /\ REAL_POOL_INFO' = SetField(REAL_POOL_INFO, t.pool_id, t.user_id,
                        LAMBDA s : [s EXCEPT !.last_input_lamports_delta =
                                        Some(t.pre_lamports - t.post_lamports)])
                 /\ Finish(t)
            ELSE /\ REAL_POOL_INFO' = SetField(REAL_POOL_INFO, t.pool_id, t.user_id,
                        LAMBDA s : [s EXCEPT !.last_output_lamports_delta =
                                        Some(t.post_lamports - t.pre_lamports)])
                 /\ evtasks' = (evtasks \ {t}) \cup
                       {[t EXCEPT !.pc = "read_output",
                                  !.output_lamports_delta = t.post_lamports - t.pre_lamports]}
    /\ UNCHANGED <<deferred, outcomes, limit, probe, trades, repo, USER_LIST, api, monitor, dectasks, submitted, count, now>>

\* The value a "for info in pool_info { if user matches { x = info.f } }"
\* loop leaves in x, which starts as start
ReadField(store, p, u, start, Get(_)) ==
    IF HasSlot(store, p, u) THEN Get(LastSlot(store, p, u)) ELSE start

\* process_user_data: last_output_lamports_delta is read back from the slot
ReadOutput(t) ==
    /\ t.pc = "read_output"
    /\ IF Panics(t)
       THEN Finish(t)
       ELSE evtasks' = (evtasks \ {t}) \cup
               {[t EXCEPT !.pc = "profit",
                          !.last_output_lamports_delta =
                              ReadField(REAL_POOL_INFO, t.pool_id, t.user_id, NoValue,
                                        LAMBDA s : s.last_output_lamports_delta)]}
    /\ UNCHANGED <<deferred, outcomes, limit, probe, trades, repo, USER_LIST, REAL_POOL_INFO, api, monitor, dectasks,
                   submitted, count, now>>

\* profit_sol = (output_lamports_delta - last_output_lamports_delta.unwrap_or(0)) / 10^9
ProfitSol(output_lamports_delta, last_output_lamports_delta) ==
    output_lamports_delta - UnwrapOr(last_output_lamports_delta, 0)

\* process_user_data: info.last_profit_sol = Some(profit_sol)
WriteProfit(t) ==
    /\ t.pc = "profit"
    /\ IF Panics(t)
       THEN Finish(t) /\ UNCHANGED REAL_POOL_INFO
       ELSE LET profit == ProfitSol(t.output_lamports_delta, t.last_output_lamports_delta)
            IN  /\ REAL_POOL_INFO' = SetField(REAL_POOL_INFO, t.pool_id, t.user_id,
                        LAMBDA s : [s EXCEPT !.last_profit_sol = Some(profit)])
                /\ evtasks' = (evtasks \ {t}) \cup
                      {[t EXCEPT !.pc = "read_input", !.profit_sol = profit]}
    /\ UNCHANGED <<deferred, outcomes, limit, probe, trades, repo, USER_LIST, api, monitor, dectasks, submitted, count, now>>

\* process_user_data: last_input_lamports = info.last_input_lamports_delta
ReadInput(t) ==
    /\ t.pc = "read_input"
    /\ IF Panics(t)
       THEN Finish(t)
       ELSE evtasks' = (evtasks \ {t}) \cup
               {[t EXCEPT !.pc = "roi",
                          !.last_input_lamports =
                              ReadField(REAL_POOL_INFO, t.pool_id, t.user_id, NoValue,
                                        LAMBDA s : s.last_input_lamports_delta)]}
    /\ UNCHANGED <<deferred, outcomes, limit, probe, trades, repo, USER_LIST, REAL_POOL_INFO, api, monitor, dectasks,
                   submitted, count, now>>

\* roi = if input_sol > 0.0 { (profit_sol / input_sol) * 100.0 } else { 0.0 },
\* input_sol = last_input_lamports.unwrap_or(0) / 10^9 (whole percents)
Roi(profit_sol, last_input_lamports) ==
    IF UnwrapOr(last_input_lamports, 0) > 0
    THEN (profit_sol * 100) \div UnwrapOr(last_input_lamports, 0)
    ELSE 0

\* process_user_data: info.last_roi_pct = Some(roi)
WriteRoi(t) ==
    /\ t.pc = "roi"
    /\ IF Panics(t)
       THEN Finish(t) /\ UNCHANGED REAL_POOL_INFO
       ELSE /\ REAL_POOL_INFO' = SetField(REAL_POOL_INFO, t.pool_id, t.user_id,
                   LAMBDA s : [s EXCEPT !.last_roi_pct =
                                   Some(Roi(t.profit_sol, t.last_input_lamports))])
            /\ Move(t, "read_start")
    /\ UNCHANGED <<deferred, outcomes, limit, probe, trades, repo, USER_LIST, api, monitor, dectasks, submitted, count, now>>

\* process_user_data, !has_bought: start_time = info.start_time
ReadStart(t) ==
    /\ t.pc = "read_start"
    /\ IF Panics(t) \/ ~HasSlot(REAL_POOL_INFO, t.pool_id, t.user_id)
       THEN Finish(t)
       ELSE evtasks' = (evtasks \ {t}) \cup
               {[t EXCEPT !.pc = "duration",
                          !.start_time =
                              LastSlot(REAL_POOL_INFO, t.pool_id, t.user_id).start_time]}
    /\ UNCHANGED <<deferred, outcomes, limit, probe, trades, repo, USER_LIST, REAL_POOL_INFO, api, monitor, dectasks,
                   submitted, count, now>>

\* process_user_data: info.last_duration = Some(now - start_time)
WriteDuration(t) ==
    /\ t.pc = "duration"
    /\ REAL_POOL_INFO' =
          IF Panics(t) THEN REAL_POOL_INFO
          ELSE SetField(REAL_POOL_INFO, t.pool_id, t.user_id,
                  LAMBDA s : [s EXCEPT !.last_duration = Some(NowMs(now) - t.start_time)])
    /\ Finish(t)
    /\ UNCHANGED <<deferred, outcomes, limit, probe, trades, repo, USER_LIST, api, monitor, dectasks, submitted, count, now>>

----------------------------------------------------------------------------
(* display_pool_price_change: the decision *)

\* percent = ((old - new) / old) * 100.0; the code fires on
\* "percent <= -entry_percent" (compared here without dividing; old > 0)
BuyFires(old, new, entry_percent) ==
    old > 0 /\ (old - new) * 100 <= -(entry_percent * old)

\* percent = ((new - bought_price) / bought_price) * 100.0, and 0.0 when
\* bought_price is None or not positive; "percent >= take_profit"
TakeProfitHit(new, bought_price, take_profit) ==
    IF bought_price # None /\ bought_price > 0
    THEN (new - bought_price) * 100 >= take_profit * bought_price
    ELSE 0 >= take_profit

\* "percent <= -stop_loss"
StopLossHit(new, bought_price, stop_loss) ==
    IF bought_price # None /\ bought_price > 0
    THEN (new - bought_price) * 100 <= -(stop_loss * bought_price)
    ELSE 0 <= -stop_loss

\* "current_time - bought_at_time > auto_exit_ms", auto_exit_ms = auto_exit * 1000
AutoExitHit(time_ms, bought_at, auto_exit) ==
    bought_at # None /\ time_ms - bought_at > auto_exit * 1000

\* (the chain with the forced exit tested first)
SellDecisionForcedFirst(new, bought_price, bought_at, auto_exit, take_profit, stop_loss, time_ms) ==
    IF auto_exit = 0 THEN "FORCED"
    ELSE IF TakeProfitHit(new, bought_price, take_profit) THEN "TP"
    ELSE IF StopLossHit(new, bought_price, stop_loss) THEN "SL"
    ELSE IF AutoExitHit(time_ms, bought_at, auto_exit) THEN "TIMEOUT"
    ELSE "NONE"

\* The if / else-if chain of the bought branch
SellDecision(new, bought_price, bought_at, auto_exit, take_profit, stop_loss, time_ms) ==
    IF TakeProfitHit(new, bought_price, take_profit) THEN "TP"
    ELSE IF StopLossHit(new, bought_price, stop_loss) THEN "SL"
    ELSE IF auto_exit = 0 THEN "FORCED"
    ELSE IF AutoExitHit(time_ms, bought_at, auto_exit) THEN "TIMEOUT"
    ELSE "NONE"

\* display_pool_price_change(old, new, pool_info) at time time_ms: what fires
Decision(old, new, info, setting, time_ms) ==
    IF ~(old > 0) THEN "NONE"
    ELSE IF ~info.is_bought
         THEN IF BuyFires(old, new, setting.entry_percent) THEN "BUY" ELSE "NONE"
         ELSE SellDecision(new, info.bought_price, info.bought_at, info.auto_exit,
                           setting.take_profit, setting.stop_loss, time_ms)

----------------------------------------------------------------------------
(* The pool price monitor task *)

Flatten(store, order) ==
    IF Len(order) = 0 THEN <<>>
    ELSE IF Len(order) = 1 THEN store[order[1]]
    ELSE store[order[1]] \o store[order[2]]

\* The orders in which the HashMap iterator can yield the buckets
BucketOrders(store) ==
    {o \in UNION {[1..n -> DOMAIN store] : n \in {Cardinality(DOMAIN store)}} :
        \A i, j \in DOMAIN o : i # j => o[i] # o[j]}

\* monitor: pool_data = REAL_POOL_INFO.read().await.clone()
MonitorSnapshot ==
    /\ monitor = <<>>
    /\ Room(InFlight + 1)
    /\ DOMAIN REAL_POOL_INFO # {}
    /\ \E o \in BucketOrders(REAL_POOL_INFO) : monitor' = Flatten(REAL_POOL_INFO, o)
    /\ UNCHANGED <<deferred, outcomes, limit, probe, trades, repo, USER_LIST, REAL_POOL_INFO, api, evtasks,
                   dectasks, submitted, count, now>>

\* The task display_pool_price_change spawns when something fires
DecisionTask(n, info, new, kind) ==
    [id |-> n, info |-> info, new |-> new, kind |-> kind,
     pc |-> IF kind = "BUY" THEN "fire" ELSE "submit", start_time |-> NoValue,
     sim |-> "none"]

\* monitor, one slot of the snapshot: info.pool_price = latest_val under the
\* write lock, then display_pool_price_change(pool_price, latest_price, clone)
MonitorVisit ==
    /\ monitor # <<>>
    /\ LET info == Head(monitor)
           kind == Decision(info.pool_price, info.latest_pool_price, info,
                            BotSetting(info.user_id), NowMs(now))
       IN  /\ monitor' = Tail(monitor)
           /\ IF info.latest_pool_price > 0
              THEN /\ REAL_POOL_INFO' =
                        IF HasBucket(REAL_POOL_INFO, info.pool_id)
                        THEN SetField(REAL_POOL_INFO, info.pool_id, info.user_id,
                                LAMBDA s : [s EXCEPT !.pool_price = info.latest_pool_price])
                        ELSE REAL_POOL_INFO
                   /\ IF kind # "NONE"
                      THEN /\ count.decisions < limit.decisions
                           /\ Room(InFlight + (IF Len(monitor) = 1 THEN 0 ELSE 1))
                           /\ dectasks' = dectasks \cup
                                 {DecisionTask(count.decisions + 1, info,
                                               info.latest_pool_price, kind)}
                           /\ count' = [count EXCEPT !.decisions = @ + 1]
                      ELSE UNCHANGED <<dectasks, count>>
              ELSE UNCHANGED <<REAL_POOL_INFO, dectasks, count>>
    /\ UNCHANGED <<deferred, outcomes, limit, probe, trades, repo, USER_LIST, api, evtasks, submitted, now>>

\* The clock advances
Tick ==
    /\ now < limit.ticks
    /\ now' = now + 1
    /\ UNCHANGED <<deferred, outcomes, limit, probe, trades, repo, USER_LIST, REAL_POOL_INFO, api, evtasks, monitor, dectasks,
                   submitted, count>>

----------------------------------------------------------------------------
(* The spawned decision task: fire, build_and_submit_swap_transaction, cleanup *)

Step(t, pc) == dectasks' = (dectasks \ {t}) \cup {[t EXCEPT !.pc = pc]}
Drop(t) == dectasks' = dectasks \ {t}

\* A missing bucket makes get_mut(..).unwrap() / get(..).unwrap() panic
Unwraps(t) == HasBucket(REAL_POOL_INFO, t.info.pool_id)

\* (a fire that records the price alone)
RecordBuyPriceOnly(s, price, time_ms) == [s EXCEPT !.bought_price = price]

\* What the BUY fire writes to the slot
RecordBuy(s, price, time_ms) == [s EXCEPT !.bought_price = price, !.bought_at = time_ms]

\* display_pool_price_change, BUY: bought_price / bought_at in one write section
Fire(t) ==
    /\ t.pc = "fire"
    /\ IF Unwraps(t)
       THEN /\ REAL_POOL_INFO' = SetField(REAL_POOL_INFO, t.info.pool_id, t.info.user_id,
                                    LAMBDA s : RecordBuy(s, t.new, NowMs(now)))
            /\ Step(t, "submit")
       ELSE Drop(t) /\ UNCHANGED REAL_POOL_INFO
    /\ UNCHANGED <<deferred, outcomes, limit, probe, trades, repo, USER_LIST, api, evtasks, monitor, submitted, count, now>>

\* After build_and_submit_swap_transaction returns: a BUY task is over, a
\* SELL task goes on to cleanup_bot_after_sell whatever the result was.
AfterSubmit(t) == IF t.kind = "BUY" THEN Drop(t) ELSE Step(t, "cleanup")

\* What simulate_transaction can answer: Ok without err, Ok with err, Err
SimulationResults == {"ok", "err", "failed"}

\* (a pipeline that goes on to the relay whatever the simulation answered)
PreSubmitUnchecked(info, sim) == IF info.swap_buy_ixs = <<>> THEN "no_instructions" ELSE IF BotSetting(info.user_id).confirm_service # "JITO" THEN "unknown_service" ELSE "send"

\* The outcome of build_and_submit_swap_transaction up to the simulation
PreSubmit(info, sim) ==
    IF info.swap_buy_ixs = <<>> THEN "no_instructions"
    ELSE IF BotSetting(info.user_id).confirm_service # "JITO" THEN "unknown_service"
    ELSE IF sim # "ok" THEN "simulation_error"
    ELSE "send"

\* What build_and_submit_swap_transaction returned to the task t: the
\* simulation's answer as far as it ran, and the "result" of the JSON value
Outcome(t, sim, result) == [fire |-> t.id, kind |-> t.kind, sim |-> sim, result |-> result]

\* build_and_submit_swap_transaction: snapshot of swap_buy_ixs, the relay
\* tag, build_and_sign, simulate_transaction
Simulate(t, sim) ==
    /\ t.pc = "submit"
    /\ LET result == PreSubmit(t.info, sim)
       IN  IF result = "send"
           THEN /\ dectasks' = (dectasks \ {t}) \cup {[t EXCEPT !.pc = "send", !.sim = sim]}
                /\ UNCHANGED outcomes
           ELSE /\ AfterSubmit(t)
                /\ outcomes' = outcomes \cup
                      {Outcome(t, IF result = "simulation_error" THEN sim ELSE "none", result)}
    /\ UNCHANGED <<deferred, limit, probe, trades, repo, USER_LIST, REAL_POOL_INFO, api, evtasks, monitor,
                   submitted, count, now>>

\* (a pipeline that stored the signature whatever the relay answered)
StoreSignatureAlways(s, relay_ok, sig) == [s EXCEPT !.signature = sig]

\* What the pipeline writes to the slot after the relay's answer
StoreSignature(s, relay_ok, sig) == IF relay_ok THEN [s EXCEPT !.signature = sig] ELSE s

\* build_and_submit_swap_transaction: jito.send_transaction, then
\* info.signature = Some(result) under the write lock
Send(t, relay_ok) ==
    /\ t.pc = "send"
    /\ IF relay_ok
       THEN /\ submitted' = Append(submitted,
                   [user_id |-> t.info.user_id, pool_id |-> t.info.pool_id,
                    leg |-> LegOf(t.info.swap_buy_ixs), seen |-> FALSE, fire |-> t.id])
            /\ IF Unwraps(t)
               THEN /\ REAL_POOL_INFO' =
                         SetField(REAL_POOL_INFO, t.info.pool_id, t.info.user_id,
                            LAMBDA s : StoreSignature(s, relay_ok, Len(submitted) + 1))
                    /\ AfterSubmit(t)
                    /\ outcomes' = outcomes \cup {Outcome(t, t.sim, "accepted")}
               ELSE Drop(t) /\ UNCHANGED <<REAL_POOL_INFO, outcomes>>
       ELSE /\ REAL_POOL_INFO' =
                 IF Unwraps(t)
                 THEN SetField(REAL_POOL_INFO, t.info.pool_id, t.info.user_id,
                         LAMBDA s : StoreSignature(s, relay_ok, Len(submitted) + 1))
                 ELSE REAL_POOL_INFO
            /\ AfterSubmit(t)
            /\ outcomes' = outcomes \cup {Outcome(t, t.sim, "error")}
            /\ UNCHANGED submitted
    /\ UNCHANGED <<deferred, limit, probe, trades, repo, USER_LIST, api, evtasks, monitor, count, now>>

\* cleanup_bot_after_sell: start_time is read from the store
\* (get(..).unwrap()); without one nothing is written
CleanupDuration(t) ==
    /\ t.pc = "cleanup"
    /\ IF Unwraps(t)
       THEN IF HasSlot(REAL_POOL_INFO, t.info.pool_id, t.info.user_id)
            THEN dectasks' = (dectasks \ {t}) \cup
                    {[t EXCEPT !.pc = "write_duration",
                               !.start_time = Some(LastSlot(REAL_POOL_INFO, t.info.pool_id,
                                                            t.info.user_id).start_time)]}
            ELSE Step(t, "remove_users")
       ELSE Drop(t)
    /\ UNCHANGED <<deferred, outcomes, limit, probe, trades, repo, USER_LIST, REAL_POOL_INFO, api, evtasks, monitor,
                   submitted, count, now>>

\* cleanup_bot_after_sell: info.last_duration = Some(duration) in the store
CleanupWriteDuration(t) ==
    /\ t.pc = "write_duration"
    /\ IF Unwraps(t)
       THEN /\ REAL_POOL_INFO' = SetField(REAL_POOL_INFO, t.info.pool_id, t.info.user_id,
                   LAMBDA s : [s EXCEPT !.last_duration =
                                   Some(NowMs(now) - UnwrapOr(t.start_time, 0))])
            /\ Step(t, "remove_users")
       ELSE Drop(t) /\ UNCHANGED REAL_POOL_INFO
    /\ UNCHANGED <<deferred, outcomes, limit, probe, trades, repo, USER_LIST, api, evtasks, monitor, submitted, count, now>>

\* The metrics cleanup_bot_after_sell hands to save_trade_metrics: fields of
\* the pool_info it was called with; the fee is cast to whole lamports
TradeRecord(pool_info) ==
    [user_id |-> pool_info.user_id,
     profit_sol |-> UnwrapOr(pool_info.last_profit_sol, 0),
     total_fees_lamports |-> pool_info.fee \div 100,
     roi_pct |-> UnwrapOr(pool_info.last_roi_pct, 0),
     duration_ms |-> UnwrapOr(pool_info.last_duration, 0)]

\* cleanup_bot_after_sell: save_trade_metrics, whose Err is dropped
\* (let _ =) and whose expect("MONGODB_URI not set") panics in a process
\* started without that variable; then USER_LIST.retain
CleanupRemoveUsers(t, persist_ok) ==
    /\ t.pc = "remove_users"
    /\ IF limit.mongodb_uri
       THEN /\ ~UserListLocked
            /\ trades' = IF persist_ok THEN Append(trades, TradeRecord(t.info)) ELSE trades
            /\ USER_LIST' = RetainUsers(USER_LIST, t.info.user_id)
            /\ Step(t, "remove_store")
       ELSE Drop(t) /\ UNCHANGED <<trades, USER_LIST>>
    /\ UNCHANGED <<deferred, outcomes, limit, probe, repo, REAL_POOL_INFO, api, evtasks, monitor, submitted, count, now>>

\* cleanup_bot_after_sell: REAL_POOL_INFO.retain
CleanupRemoveStore(t) ==
    /\ t.pc = "remove_store"
    /\ REAL_POOL_INFO' = RetainOthers(REAL_POOL_INFO, t.info.user_id)
    /\ Drop(t)
    /\ UNCHANGED <<deferred, outcomes, limit, probe, trades, repo, USER_LIST, api, evtasks, monitor, submitted, count, now>>

----------------------------------------------------------------------------
(* display_pool_price_change as a function of its inputs *)

NoProbe ==
    [old |-> 0, new |-> 0, is_bought |-> FALSE, bought_price |-> None,
     bought_at |-> None, auto_exit |-> 0, entry_percent |-> 25, take_profit |-> 25,
     stop_loss |-> 25, time_ms |-> 0, out |-> "unset"]

\* One call on the drawn inputs
Evaluate ==
    /\ probe.out = "unset"
    /\ probe' = [probe EXCEPT !.out =
                    Decision(probe.old, probe.new, probe, probe, probe.time_ms)]
    /\ UNCHANGED <<deferred, outcomes, repo, USER_LIST, REAL_POOL_INFO, api, evtasks, monitor, dectasks,
                   submitted, trades, count, now, limit>>

----------------------------------------------------------------------------
\* The state after construction, in an environment l
Construction(l) ==
    /\ limit = l
    /\ probe = NoProbe
    /\ repo = [u \in Users |-> "p1"]
    /\ USER_LIST = <<>>
    /\ REAL_POOL_INFO = [p \in {} |-> <<>>]
    /\ api = [u \in Users |-> IdleCall]
    /\ evtasks = {}
    /\ monitor = <<>>
    /\ dectasks = {}
    /\ submitted = <<>>
    /\ trades = <<>>
    /\ count = [events |-> 0, decisions |-> 0]
    /\ now = 0
    /\ outcomes = {}
    /\ deferred = {}

\* One user on one pool; calls and tasks overlap
RaceLimit ==
    [events |-> MaxEvents, decisions |-> MaxDecisions, ticks |-> 0,
     overlap |-> MaxOverlap, users |-> {"u1"}, pools |-> {"p1"},
     reserves |-> PositivePairs, mongodb_uri |-> TRUE]

\* One user; every call and task runs to its end before the next one starts;
\* the configured pool can change and the clock advances
SerialLimit ==
    [events |-> MaxEvents + 1, decisions |-> MaxDecisions, ticks |-> MaxTicks,
     overlap |-> 1, users |-> {"u1"}, pools |-> Pools, reserves |-> ReservePairs,
     mongodb_uri |-> TRUE]

\* As SerialLimit on one pool, for the user whose confirm_service is not JITO
RelayLimit ==
    [events |-> MaxEvents, decisions |-> MaxDecisions, ticks |-> 0,
     overlap |-> 1, users |-> {"u2"}, pools |-> {"p1"},
     reserves |-> PositivePairs, mongodb_uri |-> TRUE]

\* Two users on one pool, every call and task alone
PairLimit ==
    [events |-> MaxEvents - 1, decisions |-> MaxDecisions - 1, ticks |-> 0,
     overlap |-> 1, users |-> Users, pools |-> {"p1"},
     reserves |-> {<<10, 100>>, <<13, 100>>}, mongodb_uri |-> TRUE]

\* As SerialLimit on one pool, in a process started without MONGODB_URI
\* (the backend then connects to its default, backend/config.rs)
UnsetLimit ==
    [events |-> MaxEvents, decisions |-> MaxDecisions, ticks |-> 0,
     overlap |-> 1, users |-> {"u1"}, pools |-> {"p1"},
     reserves |-> PositivePairs, mongodb_uri |-> FALSE]

Init == \E l \in {RaceLimit, SerialLimit, RelayLimit} : Construction(l)

\* BotService calls
Api ==
    \/ \E u \in limit.users, p \in limit.pools : UpdateTradingParams(u, p)
    \/ \E u \in limit.users : StartCleanupUsers(u)
    \/ \E u \in limit.users : StartCleanupStore(u)
    \/ \E u \in limit.users : StartLoad(u)
    \/ \E u \in limit.users : StartAddUser(u)
    \/ \E u \in limit.users : StartAddStore(u)
    \/ \E u \in limit.users : StopRead(u)
    \/ \E u \in limit.users : StopRemoveUsers(u)
    \/ \E u \in limit.users : StopRemoveStore(u)
    \/ \E u \in limit.users : StopSell(u)

\* The stream processors and the tasks they spawn
Stream ==
    \/ \E p \in Pools, r \in limit.reserves, sig \in {NoSig} \cup DOMAIN submitted :
          Process(p, r, sig)
    \/ \E t \in evtasks : CheckPool(t)
    \/ \E t \in evtasks : CheckUser(t)
    \/ \E t \in evtasks : WritePrice(t)
    \/ \E t \in evtasks, rpc_ok \in BOOLEAN : ReadBought(t, rpc_ok)
    \/ \E t \in evtasks : WriteIxs(t)
    \/ \E t \in evtasks : ReadSignature(t)
    \/ \E t \in evtasks : Toggle(t)
    \/ \E t \in evtasks : AddFee(t)
    \/ \E t \in evtasks : WriteDelta(t)
    \/ \E t \in evtasks : ReadOutput(t)
    \/ \E t \in evtasks : WriteProfit(t)
    \/ \E t \in evtasks : ReadInput(t)
    \/ \E t \in evtasks : WriteRoi(t)
    \/ \E t \in evtasks : ReadStart(t)
    \/ \E t \in evtasks : WriteDuration(t)

\* process_user_data creating a slot it did not find
Insertion ==
    \/ \E t \in evtasks : InsertInitial(t)
    \/ \E t \in evtasks : PushInitial(t)

\* The monitor, the clock, and the tasks display_pool_price_change spawns
Trading ==
    \/ MonitorSnapshot
    \/ MonitorVisit
    \/ \E t \in dectasks : Fire(t)
    \/ \E t \in dectasks, sim \in SimulationResults : Simulate(t, sim)
    \/ \E t \in dectasks, relay_ok \in BOOLEAN : Send(t, relay_ok)
    \/ \E t \in dectasks : CleanupDuration(t)
    \/ \E t \in dectasks : CleanupWriteDuration(t)
    \/ \E t \in dectasks, persist_ok \in BOOLEAN : CleanupRemoveUsers(t, persist_ok)
    \/ \E t \in dectasks : CleanupRemoveStore(t)

Next == Api \/ Stream \/ Insertion \/ Trading \/ Tick

Spec == Init /\ [][Next]_vars

\* The serial environments alone: a task that runs alone finds the slot that
\* start_bot made, so process_user_data never inserts one
InitSerial == \E l \in {SerialLimit, RelayLimit, PairLimit, UnsetLimit} : Construction(l)

NextSerial == Api \/ Stream \/ Trading \/ Tick

SpecSerial == InitSerial /\ [][NextSerial]_vars

\* The steps of the calls and tasks that are under way.  The monitor is a
\* loop that sleeps 400 ms and scans again, and tokio runs every spawned
\* task and every pending handler to its next await: none of them waits
\* forever while it can take its step.
Running ==
    \/ \E u \in limit.users : StartCleanupStore(u)
    \/ \E u \in limit.users : StartLoad(u)
    \/ \E u \in limit.users : StartAddUser(u)
    \/ \E u \in limit.users : StartAddStore(u)
    \/ \E u \in limit.users : StopRemoveUsers(u)
    \/ \E u \in limit.users : StopRemoveStore(u)
    \/ \E u \in limit.users : StopSell(u)
    \/ \E t \in evtasks : CheckPool(t)
    \/ \E t \in evtasks : CheckUser(t)
    \/ \E t \in evtasks : WritePrice(t)
    \/ \E t \in evtasks, rpc_ok \in BOOLEAN : ReadBought(t, rpc_ok)
    \/ \E t \in evtasks : WriteIxs(t)
    \/ \E t \in evtasks : ReadSignature(t)
    \/ \E t \in evtasks : Toggle(t)
    \/ \E t \in evtasks : AddFee(t)
    \/ \E t \in evtasks : WriteDelta(t)
    \/ \E t \in evtasks : ReadOutput(t)
    \/ \E t \in evtasks : WriteProfit(t)
    \/ \E t \in evtasks : ReadInput(t)
    \/ \E t \in evtasks : WriteRoi(t)
    \/ \E t \in evtasks : ReadStart(t)
    \/ \E t \in evtasks : WriteDuration(t)

\* The serial environments with the scheduling of the runtime.  A call of
\* the API does not hold back the monitor in the program; in a serial
\* environment it does, for the length of the call, so the monitor and the
\* decision tasks get the steps they are enabled for again and again.
SpecLive == InitSerial /\ [][NextSerial]_vars /\ SF_vars(Trading) /\ WF_vars(Running)

\* One user on one pool, with one decision more than a buy and a sell take:
\* calls and tasks overlap, and the process runs with MONGODB_URI set
ExitLimit ==
    [events |-> MaxEvents, decisions |-> MaxDecisions + 1, ticks |-> 0,
     overlap |-> MaxOverlap, users |-> {"u1"}, pools |-> {"p1"},
     reserves |-> PositivePairs, mongodb_uri |-> TRUE]

InitExit == \E l \in {ExitLimit, SerialLimit} : Construction(l)

\* Nothing of an earlier activation is left: no entry, no slot, no task,
\* and no event has been observed
Fresh ==
    /\ USER_LIST = <<>>
    /\ DOMAIN REAL_POOL_INFO = {}
    /\ evtasks = {}
    /\ dectasks = {}
    /\ monitor = <<>>
    /\ count.events = 0

\* The user activates the bot before any event is observed and never
\* again afterwards, and stops it at any time
ApiExit ==
    \/ \E u \in limit.users, p \in limit.pools : UpdateTradingParams(u, p)
    \/ \E u \in limit.users : Fresh /\ StartCleanupUsers(u)
    \/ \E u \in limit.users : StartCleanupStore(u)
    \/ \E u \in limit.users : StartLoad(u)
    \/ \E u \in limit.users : StartAddUser(u)
    \/ \E u \in limit.users : StartAddStore(u)
    \/ \E u \in limit.users : StopRead(u)
    \/ \E u \in limit.users : StopRemoveUsers(u)
    \/ \E u \in limit.users : StopRemoveStore(u)
    \/ \E u \in limit.users : StopSell(u)

NextExit == ApiExit \/ Stream \/ Trading

\* Every slot that events and decisions act on stems from one activation
SpecExit == InitExit /\ [][NextExit]_vars

\* Two users on one pool with no stream: the calls of the API overlap with
\* each other and with the retry that start_bot spawns
RetryLimit ==
    [events |-> 0, decisions |-> 0, ticks |-> 0, overlap |-> MaxOverlap + 1,
     users |-> Users, pools |-> {"p1"}, reserves |-> {}, mongodb_uri |-> TRUE]

InitRetry == Construction(RetryLimit)

\* A call of start_bot or stop_bot (not long) begins
Calls ==
    \/ \E u \in limit.users : StartCleanupUsers(u)
    \/ \E u \in limit.users : StartCleanupTimeout(u)
    \/ \E u \in limit.users : StopRead(u)

\* The call of u that is under way takes its next step
Continues(u) ==
    \/ StartCleanupStore(u)
    \/ StartLoad(u)
    \/ StartAddUser(u)
    \/ StartAddUserTimeout(u)
    \/ StartAddStore(u)
    \/ StopRemoveUsers(u)
    \/ StopRemoveStore(u)

\* A call under way, or a spawned retry, takes its next step
Proceeds ==
    \/ \E u \in limit.users : StartCleanupStore(u)
    \/ \E u \in limit.users : StartLoad(u)
    \/ \E u \in limit.users : StartAddUser(u)
    \/ \E u \in limit.users : StartAddUserTimeout(u)
    \/ \E u \in limit.users : StartAddStore(u)
    \/ \E u \in limit.users : StopRemoveUsers(u)
    \/ \E u \in limit.users : StopRemoveStore(u)
    \/ \E d \in deferred : DeferredAddUser(d)

NextRetry == Calls \/ Proceeds

\* The API alone, with the scheduling of the runtime: every call under way
\* and every spawned retry gets its steps; nothing makes a client call again
SpecRetry ==
    /\ InitRetry /\ [][NextRetry]_vars
    /\ \A u \in Users : WF_vars(Continues(u))
    /\ WF_vars(\E d \in deferred : DeferredAddUser(d))

\* display_pool_price_change alone, on inputs drawn from bounded sets
MaxPrice == 4
Percents == {25, 50}
ProbeTimes == {0, 1000, 1001}

ProbeInputs ==
    [old : 0..MaxPrice, new : 0..MaxPrice, is_bought : BOOLEAN,
     bought_price : {None} \cup 0..MaxPrice, bought_at : {None, 0},
     auto_exit : {0, 1}, entry_percent : Percents, take_profit : Percents,
     stop_loss : Percents, time_ms : ProbeTimes, out : {"unset"}]

InitDecision ==
    /\ probe \in ProbeInputs
    /\ limit = SerialLimit
    /\ repo = [u \in Users |-> "p1"]
    /\ USER_LIST = <<>>
    /\ REAL_POOL_INFO = [p \in {} |-> <<>>]
    /\ api = [u \in Users |-> IdleCall]
    /\ evtasks = {}
    /\ monitor = <<>>
    /\ dectasks = {}
    /\ submitted = <<>>
    /\ trades = <<>>
    /\ count = [events |-> 0, decisions |-> 0]
    /\ now = 0
    /\ outcomes = {}
    /\ deferred = {}

NextDecision == Evaluate

SpecDecision == InitDecision /\ [][NextDecision]_vars

----------------------------------------------------------------------------
(* Unsigned integers of 64 and 128 bits (utils/swap_quote.rs, utils/utils.rs) *)

\* A number is the sequence of its digits in base 2^8, the least
\* significant digit first and the last digit not 0; the number 0 is <<>>.
Base == 2^8

\* The number n
RECURSIVE Big(_)
Big(n) == IF n = 0 THEN <<>> ELSE <<n % Base>> \o Big(n \div Base)

\* Without the zero digits at the top
RECURSIVE Norm(_)
Norm(x) ==
    IF x = <<>> THEN <<>>
    ELSE IF x[Len(x)] = 0 THEN Norm(SubSeq(x, 1, Len(x) - 1)) ELSE x

Digit(x, i) == IF i <= Len(x) THEN x[i] ELSE 0

Rest(x) == IF x = <<>> THEN <<>> ELSE Tail(x)

RECURSIVE AddCarry(_, _, _)
AddCarry(x, y, c) ==
    IF x = <<>> /\ y = <<>> THEN (IF c = 0 THEN <<>> ELSE <<c>>)
    ELSE LET sum == Digit(x, 1) + Digit(y, 1) + c
         IN  <<sum % Base>> \o AddCarry(Rest(x), Rest(y), sum \div Base)

\* x + y
Add(x, y) == AddCarry(x, y, 0)

RECURSIVE SubBorrow(_, _, _)
SubBorrow(x, y, b) ==
    IF x = <<>> THEN <<>>
    ELSE LET d == Digit(x, 1) - Digit(y, 1) - b
         IN  <<(d + Base) % Base>> \o SubBorrow(Tail(x), Rest(y), IF d < 0 THEN 1 ELSE 0)

RECURSIVE LessAt(_, _, _)
LessAt(x, y, i) ==
    IF i = 0 THEN FALSE
    ELSE IF x[i] # y[i] THEN x[i] < y[i] ELSE LessAt(x, y, i - 1)

\* x < y and x <= y
Less(x, y) == IF Len(x) # Len(y) THEN Len(x) < Len(y) ELSE LessAt(x, y, Len(x))

Leq(x, y) == ~Less(y, x)

\* x - y for x >= y
Sub(x, y) == Norm(SubBorrow(x, y, 0))

RECURSIVE MulDigit(_, _, _)
MulDigit(x, d, c) ==
    IF x = <<>> THEN (IF c = 0 THEN <<>> ELSE <<c>>)
    ELSE LET p == x[1] * d + c
         IN  <<p % Base>> \o MulDigit(Tail(x), d, p \div Base)

\* x * Base
ShiftUp(x) == IF x = <<>> THEN <<>> ELSE <<0>> \o x

\* x * y from the top digit of x: the digits above digit i gave acc
RECURSIVE MulLoop(_, _, _, _)
MulLoop(x, y, i, acc) ==
    IF i = 0 THEN acc
    ELSE LET next == Add(ShiftUp(acc), Norm(MulDigit(y, x[i], 0)))
         IN  IF Len(next) >= 0 THEN MulLoop(x, y, i - 1, next) ELSE <<>>

\* x * y
Mul(x, y) == MulLoop(x, y, Len(x), <<>>)

\* The largest d in lo..hi with d * y <= r (lo is one)
RECURSIVE QuotientDigit(_, _, _, _)
QuotientDigit(r, y, lo, hi) ==
    IF lo = hi THEN lo
    ELSE LET mid == (lo + hi + 1) \div 2
         IN  IF Leq(Norm(MulDigit(y, mid, 0)), r)
             THEN QuotientDigit(r, y, mid, hi)
             ELSE QuotientDigit(r, y, lo, mid - 1)

\* Long division of x by y > 0 from the top digit: the digits above digit i
\* gave the quotient q and the remainder r
RECURSIVE DivLoop(_, _, _, _, _)
DivLoop(x, y, i, q, r) ==
    IF i = 0 THEN <<q, r>>
    ELSE LET part == Norm(<<x[i]>> \o r)
             d == QuotientDigit(part, y, 0, Base - 1)
             left == Sub(part, Norm(MulDigit(y, d, 0)))
         IN  IF Less(left, y) THEN DivLoop(x, y, i - 1, Norm(<<d>> \o q), left) ELSE <<>>

\* <<x / y, x % y>> for y > 0
DivMod(x, y) == DivLoop(x, y, Len(x), <<>>, <<>>)

\* x / y, rounded down
Div(x, y) == DivMod(x, y)[1]

\* The largest value of an unsigned integer of the given width
MaxOf(bits) == [i \in 1..(bits \div 8) |-> Base - 1]

\* x is a value of an unsigned integer of the given width
Fits(x, bits) == Len(x) <= bits \div 8

\* x modulo 2^bits: a wrapped result, and the cast "as u64"
Wrap(x, bits) == IF Fits(x, bits) THEN x ELSE Norm(SubSeq(x, 1, bits \div 8))

\* u64::saturating_mul and u64::saturating_add
saturating_mul(x, y) == IF Fits(Mul(x, y), 64) THEN Mul(x, y) ELSE MaxOf(64)

saturating_add(x, y) == IF Fits(Add(x, y), 64) THEN Add(x, y) ELSE MaxOf(64)

TRADE_FEE_RATE == 2500
FEE_RATE == 10000
FEE_RATE_DENOMINATOR_VALUE == 1000000

\* ceil_div: (token_amount.saturating_mul(fee_numerator)
\*              .saturating_add(fee_denominator - 1)) / fee_denominator
ceil_div(token_amount, fee_numerator, fee_denominator) ==
    Div(saturating_add(saturating_mul(token_amount, fee_numerator),
                       Sub(fee_denominator, Big(1))),
        fee_denominator)

calculate_fee(amount, fee_rate) == ceil_div(amount, fee_rate, Big(FEE_RATE_DENOMINATOR_VALUE))

\* (the quote with the product kept in 64 bits)
get_amount_out_narrow(amount_in, input_reserve, output_reserve) == IF Wrap(Add(input_reserve, amount_in), 128) = <<>> THEN <<>> ELSE Div(Wrap(Mul(amount_in, output_reserve), 64), Wrap(Add(input_reserve, amount_in), 128))

\* get_amount_out on u128: 0 when input_reserve + amount_in == 0, else
\* amount_in.mul(output_reserve).div(input_reserve.add(amount_in)); a result
\* that does not fit is wrapped where the build does not check it
get_amount_out(amount_in, input_reserve, output_reserve) ==
    IF Wrap(Add(input_reserve, amount_in), 128) = <<>> THEN <<>>
    ELSE Div(Wrap(Mul(amount_in, output_reserve), 128),
             Wrap(Add(input_reserve, amount_in), 128))

\* An addition or the multiplication of get_amount_out overflows u128: a
\* build with overflow checks panics there
AmountOutOverflows(amount_in, input_reserve, output_reserve) ==
    \/ ~Fits(Add(input_reserve, amount_in), 128)
    \/ ~Fits(Mul(amount_in, output_reserve), 128)

\* amount_in - fee on u64: wraps below 0 where the build does not check it
WrappingSub(x, y) == IF Leq(y, x) THEN Sub(x, y) ELSE Sub(Add(x, Add(MaxOf(64), Big(1))), y)

\* (the quote with the two reserves in the other order)
get_swap_quote_base_first(amount_in, base_reserve, quote_reserve) == Wrap(get_amount_out(WrappingSub(amount_in, calculate_fee(amount_in, Big(TRADE_FEE_RATE + FEE_RATE))), base_reserve, quote_reserve), 64)

\* get_swap_quote: the fee is taken off amount_in, the quote reserve is the
\* input side; the result is cast to u64
get_swap_quote(amount_in, base_reserve, quote_reserve) ==
    LET fee == calculate_fee(amount_in, Big(TRADE_FEE_RATE + FEE_RATE))
        amount_less_fee == WrappingSub(amount_in, fee)
    IN  Wrap(get_amount_out(amount_less_fee, quote_reserve, base_reserve), 64)

\* amount_in - fee underflows: a build with overflow checks panics there
SwapQuoteOverflows(amount_in, base_reserve, quote_reserve) ==
    LET fee == calculate_fee(amount_in, Big(TRADE_FEE_RATE + FEE_RATE))
    IN  \/ Less(amount_in, fee)
        \/ AmountOutOverflows(WrappingSub(amount_in, fee), quote_reserve, base_reserve)

\* The inputs the calls are made on: the amounts up to MaxSmall, the
\* largest u64 values, the amount of the test in swap_quote.rs, the amounts
\* around the place where amount * 12500 leaves 64 bits, and one u128 value
\* that is not a u64
MaxSmall == 2

U64Samples ==
    {Big(k) : k \in 0..MaxSmall} \cup {Sub(MaxOf(64), Big(k)) : k \in 0..MaxSmall}
    \cup {Big(693000000)}

FeeAmounts ==
    U64Samples \cup {Big(k) : k \in 79..81}
    \cup {Add(Div(MaxOf(64), Big(TRADE_FEE_RATE + FEE_RATE)), Big(k)) : k \in 0..MaxSmall}

U128Samples == U64Samples \cup {MaxOf(128)}

NoResult == [done |-> FALSE, panic |-> FALSE, value |-> <<>>]

QuoteCall(fn, a, b, c) == [fn |-> fn, a |-> a, b |-> b, c |-> c, out |-> NoResult]

QuoteInputs ==
    {QuoteCall("calculate_fee", a, <<>>, <<>>) : a \in FeeAmounts}
    \cup {QuoteCall("get_amount_out", a, b, c) : a \in U128Samples, b \in U128Samples, c \in U128Samples}
    \cup {QuoteCall("get_swap_quote", a, b, c) : a \in U64Samples, b \in U64Samples, c \in U64Samples}

\* What a call leaves: the value, or a panic where the build checks overflow
Results(overflows, value) ==
    {[done |-> TRUE, panic |-> FALSE, value |-> value]}
    \cup (IF overflows THEN {[done |-> TRUE, panic |-> TRUE, value |-> <<>>]} ELSE {})

Returns(outs) ==
    /\ ~probe.out.done
    /\ \E r \in outs : probe' = [probe EXCEPT !.out = r]
    /\ UNCHANGED <<deferred, outcomes, repo, USER_LIST, REAL_POOL_INFO, api, evtasks, monitor, dectasks,
                   submitted, trades, count, now, limit>>

CallCalculateFee ==
    /\ probe.fn = "calculate_fee"
    /\ Returns(Results(FALSE, calculate_fee(probe.a, Big(TRADE_FEE_RATE + FEE_RATE))))

CallGetAmountOut ==
    /\ probe.fn = "get_amount_out"
    /\ Returns(Results(AmountOutOverflows(probe.a, probe.b, probe.c),
                       get_amount_out(probe.a, probe.b, probe.c)))

CallGetSwapQuote ==
    /\ probe.fn = "get_swap_quote"
    /\ Returns(Results(SwapQuoteOverflows(probe.a, probe.b, probe.c),
                       get_swap_quote(probe.a, probe.b, probe.c)))

InitQuote ==
    /\ probe \in QuoteInputs
    /\ limit = SerialLimit
    /\ repo = [u \in Users |-> "p1"]
    /\ USER_LIST = <<>>
    /\ REAL_POOL_INFO = [p \in {} |-> <<>>]
    /\ api = [u \in Users |-> IdleCall]
    /\ evtasks = {}
    /\ monitor = <<>>
    /\ dectasks = {}
    /\ submitted = <<>>
    /\ trades = <<>>
    /\ count = [events |-> 0, decisions |-> 0]
    /\ now = 0
    /\ outcomes = {}
    /\ deferred = {}

NextQuote == CallCalculateFee \/ CallGetAmountOut \/ CallGetSwapQuote

\* The quote and fee helpers alone, on inputs drawn from bounded sets
SpecQuote == InitQuote /\ [][NextQuote]_vars

----------------------------------------------------------------------------
(* Properties *)

\* The slot of user u in bucket p
Slot(store, p, u) == LastSlot(store, p, u)

\* The slot of u in p is long
Long(store, p, u) == HasSlot(store, p, u) /\ Slot(store, p, u).is_bought

\* The decision task t took its last step: it is gone from dectasks
Ended(t) == t \in dectasks /\ \A d \in dectasks' : d.id # t.id

\* The event task t took the step from pc to next
Stepped(t, pc, next) ==
    /\ t \in evtasks
    /\ t.pc = pc
    /\ \E n \in evtasks' : n.ev = t.ev /\ n.user_id = t.user_id /\ n.pc = next

\* C1: within a slot's lifetime is_bought changes only in a step that
\* processes an event whose signature equals the signature the slot holds
\* at that step.  (Steps in which start_bot or process_user_data put a
\* fresh slot in place begin a new lifetime and are not constrained.)
C1_ToggleOnlyOnPendingSignature ==
    [][\A p \in Pools, u \in Users :
         ( /\ HasSlot(REAL_POOL_INFO, p, u)
           /\ HasSlot(REAL_POOL_INFO', p, u)
           /\ api' = api
           /\ ~\E t \in evtasks : t.pc \in {"insert", "push"} /\ t \notin evtasks'
           /\ Slot(REAL_POOL_INFO', p, u).is_bought # Slot(REAL_POOL_INFO, p, u).is_bought )
         => \E t \in evtasks :
               /\ Stepped(t, "toggle", "fee")
               /\ t.user_id = u /\ t.pool_id = p
               /\ t.sig = Slot(REAL_POOL_INFO, p, u).signature]_vars

\* C2: in every reachable state there is at most one slot for every pool p
\* and user u.
C2_SlotUniqueness ==
    \A p \in Pools, u \in Users : Len(UserSlots(REAL_POOL_INFO, p, u)) <= 1

\* C3: for a slot that is not long, an evaluation fires BUY if and only if
\* prev > 0 and the drop (prev - new) / prev * 100 is at least entry_percent.
C3_BuyOnDrop ==
    (probe.out # "unset" /\ ~probe.is_bought)
    => (probe.out = "BUY"
          <=> ( /\ probe.old > 0
                /\ (probe.old - probe.new) * 100 >= probe.entry_percent * probe.old ))

\* The slot of u in p is not long and holds a signature of which the stream
\* has not delivered any transaction yet
PendingBuy(store, p, u) ==
    /\ HasSlot(store, p, u)
    /\ ~Slot(store, p, u).is_bought
    /\ Slot(store, p, u).signature # NoSig
    /\ ~submitted[Slot(store, p, u).signature].seen

\* C4: while a slot that is not long holds a signature that no processed
\* event has matched, no BUY fires for that slot.
C4_NoBuyWhilePending ==
    [][\A t \in dectasks' \ dectasks :
         (t.kind = "BUY" /\ t.pc = "fire")
         => ~PendingBuy(REAL_POOL_INFO, t.info.pool_id, t.info.user_id)]_vars

\* C5: for any slot at most one submission pipeline is in progress: while
\* the store holds a single slot for (p, u), never two tasks of that slot
\* are both between simulation and the relay's answer.
C5_OnePipelinePerSlot ==
    \A p \in Pools, u \in Users :
        Len(UserSlots(REAL_POOL_INFO, p, u)) = 1
        => Cardinality({t \in dectasks :
                           t.info.pool_id = p /\ t.info.user_id = u /\ t.pc = "send"}) <= 1

\* C6: for a long slot with bought_price > 0 (and a previous price, so that
\* the evaluation takes place) one evaluation fires the first true condition
\* of take-profit, stop-loss, forced, timeout, in this order, and nothing
\* when none is true.
C6_FirstTrueSellCondition ==
    LET pnl100 == (probe.new - probe.bought_price) * 100
        tp == pnl100 >= probe.take_profit * probe.bought_price
        sl == pnl100 <= -(probe.stop_loss * probe.bought_price)
        forced == probe.auto_exit = 0
        timeout == probe.time_ms - probe.bought_at > probe.auto_exit * 1000
    IN  ( /\ probe.out # "unset"
          /\ probe.old > 0
          /\ probe.is_bought
          /\ probe.bought_price # None /\ probe.bought_price > 0
          /\ probe.bought_at # None )
        => /\ probe.out \in {"TP", "SL", "FORCED", "TIMEOUT", "NONE"}
           /\ probe.out = "TP" <=> tp
           /\ probe.out = "SL" <=> (~tp /\ sl)
           /\ probe.out = "FORCED" <=> (~tp /\ ~sl /\ forced)
           /\ probe.out = "TIMEOUT" <=> (~tp /\ ~sl /\ ~forced /\ timeout)
           /\ probe.out = "NONE" <=> (~tp /\ ~sl /\ ~forced /\ ~timeout)

\* An evaluation of a long slot in which take-profit and forced are both
\* true, and take-profit was chosen
C6_Witness ==
    /\ probe.out = "TP"
    /\ probe.old > 0
    /\ probe.is_bought
    /\ probe.bought_price # None /\ probe.bought_price > 0
    /\ probe.bought_at # None
    /\ probe.auto_exit = 0

\* C7: each submitted signature toggles is_bought at most once.  Every
\* matched event adds one event fee to the slot, so the fee of a slot never
\* exceeds its initial value by more than one event fee per signature
\* submitted for its user.
C7_OneTogglePerSignature ==
    \A p \in DOMAIN REAL_POOL_INFO : \A i \in DOMAIN REAL_POOL_INFO[p] :
        REAL_POOL_INFO[p][i].fee
          <= InitialFee + EventFee * Cardinality({n \in DOMAIN submitted :
                 submitted[n].user_id = REAL_POOL_INFO[p][i].user_id})

\* C8: post-exit cleanup removes a slot only after the sell was confirmed,
\* that is, never a slot that is still long.
C8_CleanupOnlyAfterSellConfirmed ==
    [][\A t \in dectasks :
         (t.pc = "remove_store" /\ Ended(t))
         => ~Long(REAL_POOL_INFO, t.info.pool_id, t.info.user_id)]_vars

\* The BUY task t ends in this step without a transaction accepted by the relay
FailedBuyEnd(t) ==
    /\ t.kind = "BUY"
    /\ t.pc \in {"submit", "send"}
    /\ Ended(t)
    /\ submitted' = submitted
    /\ HasSlot(REAL_POOL_INFO', t.info.pool_id, t.info.user_id)

\* The slot as the monitor left it right before the fire of t
BeforeFire(t) == [t.info EXCEPT !.pool_price = t.new]

\* A slot without its bought_price and bought_at
OtherFields(s) == [s EXCEPT !.bought_price = None, !.bought_at = None]

\* C9 as stated: when a BUY fire ends without a successful submission,
\* every field of the slot, bought_price and bought_at included, has the
\* value it had before the fire.
C9_FailedBuyRestoresSlot ==
    [][\A t \in dectasks :
         FailedBuyEnd(t)
         => Slot(REAL_POOL_INFO', t.info.pool_id, t.info.user_id) = BeforeFire(t)]_vars

\* C9: when a BUY fire ends without a successful submission, every field
\* of the slot other than bought_price and bought_at (which the fire
\* recorded before the submission started) has the value it had before the fire.
C9_FailedBuyKeepsOtherFields ==
    [][\A t \in dectasks :
         FailedBuyEnd(t)
         => OtherFields(Slot(REAL_POOL_INFO', t.info.pool_id, t.info.user_id))
              = OtherFields(BeforeFire(t))]_vars

\* A BUY fire has recorded its price and its pipeline has ended without
\* any accepted transaction
C9_Witness ==
    /\ dectasks = {}
    /\ submitted = <<>>
    /\ count.decisions > 0
    /\ \E p \in Pools, u \in Users :
          /\ HasSlot(REAL_POOL_INFO, p, u)
          /\ Slot(REAL_POOL_INFO, p, u).bought_price # None
          /\ Slot(REAL_POOL_INFO, p, u).signature = NoSig
          /\ ~Slot(REAL_POOL_INFO, p, u).is_bought

\* C10: a Stop that finds the user's slot long goes on to set auto_exit = 0
\* on that slot, whatever pool_address the repository holds.
C10_StopKeepsLongSlot ==
    [][\A u \in Users, p \in Pools :
         ( /\ api[u].pc = "idle"
           /\ api'[u].pc \in {"stop_sell", "stop_remove_users"}
           /\ Long(REAL_POOL_INFO, p, u) )
         => (api'[u].pc = "stop_sell" /\ api'[u].pool_id = p)]_vars

\* Stop has set auto_exit = 0 on the long slot of u in p
StoppedLong(p, u) ==
    Long(REAL_POOL_INFO, p, u) /\ Slot(REAL_POOL_INFO, p, u).auto_exit = 0

\* A SELL of the slot of u in p has fired
SellFired(p, u) ==
    \E t \in dectasks :
        t.kind \in {"TP", "SL", "FORCED"} /\ t.info.pool_id = p /\ t.info.user_id = u

\* C11: once Stop has set auto_exit = 0 on a long slot, a SELL of that slot
\* eventually fires (or the slot stops being long), whatever price the
\* slot observes; counted while the environment still lets a decision fire.
C11_StopForcesSell ==
    \A u \in Users, p \in Pools :
        (StoppedLong(p, u) /\ count.decisions < limit.decisions)
        ~> (SellFired(p, u) \/ ~StoppedLong(p, u))

\* The number of slots of u in the whole store
SlotCount(store, u) ==
    Len(UserSlots(store, "p1", u)) + Len(UserSlots(store, "p2", u))

\* The number of entries of u in the registry
EntryCount(list, u) == Len(SelectSeq(list, LAMBDA x : x.user_id = u))

OtherSlots(store, p, u) ==
    IF HasBucket(store, p) THEN SelectSeq(store[p], LAMBDA s : s.user_id # u) ELSE <<>>

OtherEntries(list, u) == SelectSeq(list, LAMBDA x : x.user_id # u)

\* The buckets of the store that hold a slot of a user other than u
OtherBuckets(store, u) == {p \in Pools : OtherSlots(store, p, u) # <<>>}

C14_ProfitAgainstPriorOutput ==
    [][\A t \in evtasks :
         /\ ( /\ Stepped(t, "profit", "read_input")
              /\ HasSlot(REAL_POOL_INFO, t.pool_id, t.user_id)
              /\ Slot(REAL_POOL_INFO, t.pool_id, t.user_id).last_profit_sol = NoValue )
            => Slot(REAL_POOL_INFO', t.pool_id, t.user_id).last_profit_sol
                 = Some((t.post_lamports - t.pre_lamports) - 0)
         /\ ( /\ Stepped(t, "roi", "read_start")
              /\ HasSlot(REAL_POOL_INFO, t.pool_id, t.user_id) )
            => LET s == Slot(REAL_POOL_INFO, t.pool_id, t.user_id)
                   input == UnwrapOr(s.last_input_lamports_delta, 0)
                   profit == UnwrapOr(s.last_profit_sol, 0)
               IN  Slot(REAL_POOL_INFO', t.pool_id, t.user_id).last_roi_pct
                     = Some(IF input > 0 THEN (profit * 100) \div input ELSE 0)]_vars

\* C15: the TradeRecord that post-exit cleanup persists carries the profit,
\* roi, accumulated fee and duration that the slot holds in the store at
\* that time (after the confirmation of its sell), not those of the
\* snapshot the decision was taken on.
C15_RecordCarriesStoredValues ==
    [][\A t \in dectasks :
         (t.pc = "remove_users" /\ trades' # trades
          /\ HasSlot(REAL_POOL_INFO, t.info.pool_id, t.info.user_id))
         => LET s == Slot(REAL_POOL_INFO, t.info.pool_id, t.info.user_id)
                r == trades'[Len(trades')]
            IN  /\ r.profit_sol = UnwrapOr(s.last_profit_sol, 0)
                /\ r.roi_pct = UnwrapOr(s.last_roi_pct, 0)
                /\ r.total_fees_lamports = s.fee \div 100
                /\ r.duration_ms = UnwrapOr(s.last_duration, 0)]_vars

\* C16: in every reachable state a slot that is long has its bought_price
\* and its bought_at set.
C16_LongHasBoughtPrice ==
    \A p \in DOMAIN REAL_POOL_INFO : \A i \in DOMAIN REAL_POOL_INFO[p] :
        REAL_POOL_INFO[p][i].is_bought
        => ( /\ REAL_POOL_INFO[p][i].bought_price # None
             /\ REAL_POOL_INFO[p][i].bought_at # None )

\* This step keeps the slots of bucket p: none is removed, added or replaced
\* by a fresh one
KeepsSlots(p) ==
    /\ HasBucket(REAL_POOL_INFO, p)
    /\ HasBucket(REAL_POOL_INFO', p)
    /\ Len(REAL_POOL_INFO'[p]) = Len(REAL_POOL_INFO[p])
    /\ api' = api
    /\ ~\E t \in evtasks : t.pc \in {"insert", "push"} /\ t \notin evtasks'

\* The BUY task t takes its fire step
Fires(t) ==
    /\ t \in dectasks
    /\ t.pc = "fire"
    /\ \E n \in dectasks' : n.id = t.id /\ n.pc = "submit"

\* C17: in every reachable state bought_price and bought_at of a slot are
\* both set or both unset; a BUY fire writes the new price of its
\* evaluation and the current time in one step and leaves is_bought as it
\* was; and while a slot exists the two fields are never unset again.
C17_BoughtPriceAndTimeTogether ==
    /\ [](\A p \in DOMAIN REAL_POOL_INFO : \A i \in DOMAIN REAL_POOL_INFO[p] :
            (REAL_POOL_INFO[p][i].bought_price = None)
              <=> (REAL_POOL_INFO[p][i].bought_at = None))
    /\ [][\A t \in dectasks :
            Fires(t)
            => \A i \in DOMAIN REAL_POOL_INFO[t.info.pool_id] :
                  REAL_POOL_INFO[t.info.pool_id][i].user_id = t.info.user_id
                  => LET s == REAL_POOL_INFO'[t.info.pool_id][i]
                     IN  /\ s.bought_price = t.new
                         /\ s.bought_at = NowMs(now)
                         /\ s.is_bought = REAL_POOL_INFO[t.info.pool_id][i].is_bought]_vars
    /\ [][\A p \in Pools :
            KeepsSlots(p)
            => \A i \in DOMAIN REAL_POOL_INFO[p] :
                  REAL_POOL_INFO[p][i].bought_price # None
                  => ( /\ REAL_POOL_INFO'[p][i].bought_price # None
                       /\ REAL_POOL_INFO'[p][i].bought_at # None )]_vars

\* A BUY has fired and its submission is under way: the slot holds the price
\* and the time of the fire and is not long
C17_Witness ==
    \E t \in dectasks :
        /\ t.kind = "BUY"
        /\ t.pc = "send"
        /\ HasSlot(REAL_POOL_INFO, t.info.pool_id, t.info.user_id)
        /\ Slot(REAL_POOL_INFO, t.info.pool_id, t.info.user_id).bought_price = t.new
        /\ Slot(REAL_POOL_INFO, t.info.pool_id, t.info.user_id).bought_at # None
        /\ ~Slot(REAL_POOL_INFO, t.info.pool_id, t.info.user_id).is_bought

\* C18: the accumulated fee of a slot never decreases during the slot's
\* lifetime: every step leaves it unchanged or adds the fee of a confirming
\* event, which is not negative.
C18_FeeNeverDecreases ==
    [][\A p \in Pools :
         KeepsSlots(p)
         => \A i \in DOMAIN REAL_POOL_INFO[p] :
               \/ REAL_POOL_INFO'[p][i].fee = REAL_POOL_INFO[p][i].fee
               \/ /\ REAL_POOL_INFO'[p][i].fee = REAL_POOL_INFO[p][i].fee + EventFee
                  /\ EventFee >= 0
                  /\ \E t \in evtasks : Stepped(t, "fee", "delta") /\ t.pool_id = p]_vars

\* A slot that two confirming events have added their fee to
C18_Witness ==
    \E p \in DOMAIN REAL_POOL_INFO : \E i \in DOMAIN REAL_POOL_INFO[p] :
        REAL_POOL_INFO[p][i].fee = InitialFee + 2 * EventFee

\* The event of task t left a zero reserve on one side of the pool
ZeroReserve(t) == t.reserves[1] = 0 \/ t.reserves[2] = 0

\* C19: an event with a zero reserve on either side derives the price 0,
\* that price is what the slot stores, and no BUY fires from an evaluation
\* that observes the price 0, whatever the price observed before was.
C19_ZeroReserveNoBuy ==
    /\ [](\A t \in evtasks : ZeroReserve(t) => t.price = 0)
    /\ [][\A t \in evtasks :
            (Stepped(t, "price", "read_bought") /\ ZeroReserve(t))
            => ( /\ HasSlot(REAL_POOL_INFO', t.pool_id, t.user_id)
                 /\ Slot(REAL_POOL_INFO', t.pool_id, t.user_id).latest_pool_price = 0 )]_vars
    /\ [][(monitor # <<>> /\ monitor' = Tail(monitor)
            /\ Head(monitor).latest_pool_price = 0)
           => dectasks' = dectasks]_vars
    /\ [](\A t \in dectasks : t.kind = "BUY" => t.new > 0)

\* The monitor is about to evaluate a slot that is not long and whose
\* observed price fell from a positive price to 0
C19_Witness ==
    /\ monitor # <<>>
    /\ Head(monitor).latest_pool_price = 0
    /\ Head(monitor).pool_price > 0
    /\ ~Head(monitor).is_bought
    /\ count.decisions < limit.decisions

\* C20: no call and no task is suspended (awaiting an RPC, a simulation, the
\* relay, persistence or another lock) while it holds the write guard of
\* REAL_POOL_INFO; every write section of the store is one step.
SuspendedAt ==
    {api[u].pc : u \in Users} \cup {t.pc : t \in evtasks} \cup {t.pc : t \in dectasks}

Ops(ixs) == [i \in DOMAIN ixs |-> ixs[i].op]

\* The slots of the store
Slots ==
    UNION {{REAL_POOL_INFO[p][i] : i \in DOMAIN REAL_POOL_INFO[p]} : p \in DOMAIN REAL_POOL_INFO}

\* C21: a prepared buy leg is, for both AMM families, the ordered list:
\* idempotent creation of both associated token accounts, a native
\* transfer of 1.1 x amount_in into the wrapped-native account,
\* sync-native, the swap instruction.
C21_BuyLegList ==
    \A s \in Slots :
        (s.swap_buy_ixs # <<>> /\ LegOf(s.swap_buy_ixs) = "buy")
        => /\ Ops(s.swap_buy_ixs) \in
                {<<"create_ata_idempotent", "create_ata_idempotent", "transfer",
                   "sync_native", op>> : op \in SwapOps}
           /\ s.swap_buy_ixs[3].amount = (AmountIn(s.user_id, FALSE) * 11) \div 10

\* C22: a prepared sell leg is, for both AMM families, the swap instruction
\* followed by the close of the wrapped-native account as the last
\* instruction.
C22_SellLegList ==
    \A s \in Slots :
        (s.swap_buy_ixs # <<>> /\ LegOf(s.swap_buy_ixs) = "sell")
        => /\ Len(s.swap_buy_ixs) >= 2
           /\ s.swap_buy_ixs[Len(s.swap_buy_ixs)] = CloseWsol
           /\ s.swap_buy_ixs[Len(s.swap_buy_ixs) - 1].op \in SwapOps

\* A call of fn has returned
Returned(fn) == probe.fn = fn /\ probe.out.done

\* C23: for amount_in, input_reserve and output_reserve that fit in 64 bits,
\* get_amount_out returns without overflow, returns 0 when
\* input_reserve + amount_in is 0, and otherwise returns the floor of
\* amount_in * output_reserve / (input_reserve + amount_in): the largest value
\* whose product with the denominator does not exceed the numerator.
C23_AmountOutIsFloor ==
    (Returned("get_amount_out") /\ Fits(probe.a, 64) /\ Fits(probe.b, 64) /\ Fits(probe.c, 64)) =>
        LET numerator == Mul(probe.a, probe.c)
            denominator == Add(probe.b, probe.a)
            amount_out == probe.out.value
        IN  /\ ~probe.out.panic
            /\ denominator = <<>> => amount_out = <<>>
            /\ denominator # <<>> =>
                  /\ Leq(Mul(amount_out, denominator), numerator)
                  /\ Less(numerator, Mul(Add(amount_out, Big(1)), denominator))

\* get_amount_out has returned on the largest 64-bit amount and reserves,
\* where the product needs more than 64 bits
C23_Witness ==
    /\ Returned("get_amount_out")
    /\ probe.a = MaxOf(64) /\ probe.b = MaxOf(64) /\ probe.c = MaxOf(64)
    /\ ~Fits(Mul(probe.a, probe.c), 64)
    /\ probe.out.value = Div(MaxOf(64), Big(2))

\* C24: for every 64-bit amount the fee helper returns exactly
\* ceil(amount * (2500 + 10000) / 1000000): the least fee whose product with
\* the denominator reaches amount * 12500.
C24_FeeIsExactCeiling ==
    Returned("calculate_fee") =>
        LET product == Mul(probe.a, Big(2500 + 10000))
            fee == probe.out.value
            scaled(f) == Mul(f, Big(1000000))
        IN  /\ ~probe.out.panic
            /\ Leq(product, scaled(fee))
            /\ fee # <<>> => Less(scaled(Sub(fee, Big(1))), product)

\* C25: for every 64-bit amount_in, base_reserve and quote_reserve,
\* get_swap_quote is defined (the fee does not exceed amount_in, nothing
\* overflows) and equals get_amount_out(amount_in - fee, quote_reserve,
\* base_reserve) with fee = calculate_fee(amount_in, TRADE_FEE_RATE + FEE_RATE).
C25_SwapQuoteIsAmountOutLessFee ==
    Returned("get_swap_quote") =>
        LET fee == calculate_fee(probe.a, Big(TRADE_FEE_RATE + FEE_RATE))
        IN  /\ Leq(fee, probe.a)
            /\ ~probe.out.panic
            /\ probe.out.value = get_amount_out(Sub(probe.a, fee), probe.c, probe.b)

\* get_swap_quote has returned a quote above 0 on the amount of the test in
\* swap_quote.rs, with a fee above 0 and two different reserves
C25_Witness ==
    /\ Returned("get_swap_quote")
    /\ probe.a = Big(693000000)
    /\ calculate_fee(probe.a, Big(TRADE_FEE_RATE + FEE_RATE)) = Big(8662500)
    /\ probe.b = MaxOf(64) /\ probe.c = Big(MaxSmall)
    /\ probe.out.value # <<>>

\* The decision task t takes the step that ends its jito.send_transaction
Sends(t) == t \in dectasks /\ t.pc = "send" /\ t \notin dectasks'

\* The signatures that slots of the store hold
Signatures(store) ==
    UNION {{store[p][i].signature : i \in DOMAIN store[p]} : p \in DOMAIN store} \ {NoSig}

\* The slots of bucket p whose signature this step writes
Written(p) ==
    IF HasBucket(REAL_POOL_INFO, p) /\ HasBucket(REAL_POOL_INFO', p)
       /\ Len(REAL_POOL_INFO'[p]) = Len(REAL_POOL_INFO[p])
    THEN {i \in DOMAIN REAL_POOL_INFO[p] :
             REAL_POOL_INFO'[p][i].signature # REAL_POOL_INFO[p][i].signature}
    ELSE {}

\* C26: a signature is written to a slot only in the step in which the relay
\* accepted a transaction (never when the pipeline returned for an empty
\* instruction list, a simulation error or a relay error), and only to the
\* one slot the submission was built from: the slot of that user and start
\* time, which holds prepared instructions.
C26_SignatureOnlyOnBuildingSlot ==
    [][/\ (\A t \in dectasks : ~Sends(t)) => Signatures(REAL_POOL_INFO') \subseteq Signatures(REAL_POOL_INFO)
       /\ \A t \in dectasks :
             Sends(t) =>
                /\ submitted' = submitted => Written(t.info.pool_id) = {}
                /\ Cardinality(Written(t.info.pool_id)) <= 1
                /\ \A i \in Written(t.info.pool_id) :
                      /\ REAL_POOL_INFO[t.info.pool_id][i].user_id = t.info.user_id
                      /\ REAL_POOL_INFO[t.info.pool_id][i].start_time = t.info.start_time
                      /\ REAL_POOL_INFO[t.info.pool_id][i].swap_buy_ixs # <<>>]_vars

\* The transactions the relay accepted for the decision task with this id
AcceptedFor(fire) == {i \in DOMAIN submitted : submitted[i].fire = fire}

\* C27: a transaction goes to the relay only after its simulation answered
\* without an error: a task stands before jito.send_transaction only with
\* such an answer, and every call that reached the relay had it; when the
\* simulation reports an error or the simulation call fails, the call
\* returns "simulation_error" and the relay accepted nothing for that fire.
C27_RelayOnlyAfterCleanSimulation ==
    /\ \A t \in dectasks : t.pc = "send" => t.sim = "ok"
    /\ \A i \in DOMAIN submitted :
          \A o \in outcomes : o.fire = submitted[i].fire => o.sim = "ok"
    /\ \A o \in outcomes :
          /\ o.result \in {"accepted", "error"} => o.sim = "ok"
          /\ o.sim \in {"err", "failed"} =>
                (o.result = "simulation_error" /\ AcceptedFor(o.fire) = {})

\* One fire was stopped by a simulation call that failed and the relay got
\* nothing for it; another fire's simulation answered without error and the
\* relay accepted its transaction
C27_Witness ==
    /\ \E o \in outcomes :
          o.sim = "failed" /\ o.result = "simulation_error" /\ AcceptedFor(o.fire) = {}
    /\ \E o \in outcomes :
          o.sim = "ok" /\ o.result = "accepted" /\ AcceptedFor(o.fire) # {}

\* The positions of process_user_data before latest_pool_price is written,
\* and before swap_buy_ixs is written
BeforePrice == {"check", "check_user", "insert", "push", "price"}
BeforeIxs == BeforePrice \cup {"read_bought", "write_ixs"}

\* t and later are the tasks of two events of one pool for one user, the
\* event of t first in stream order
Precedes(t, later) ==
    /\ t.ev < later.ev
    /\ t.user_id = later.user_id
    /\ t.pool_id = later.pool_id

\* C28: of two events of the same pool processed for a slot, the later one
\* in stream order decides the slot's latest price and prepared
\* instructions: the task of the earlier event never writes a different
\* latest_pool_price, or a different swap_buy_ixs, over what the task of the
\* later event has already written.
C28_LaterEventDecides ==
    [][\A t \in evtasks, later \in evtasks :
          Precedes(t, later) =>
             /\ (Stepped(t, "price", "read_bought") /\ later.pc \notin BeforePrice)
                   => t.price = later.price
             /\ (Stepped(t, "write_ixs", "read_sig") /\ later.pc \notin BeforeIxs)
                   => PreparedIxs(t.pool_id, t.user_id, t.has_bought, t.reserves)
                        = PreparedIxs(later.pool_id, later.user_id, later.has_bought,
                                      later.reserves)]_vars

\* The monitor visits the slot info of its snapshot and calls
\* display_pool_price_change(info.pool_price, info.latest_pool_price, ..)
Evaluates(info) ==
    /\ monitor # <<>>
    /\ info = Head(monitor)
    /\ monitor' = Tail(monitor)
    /\ info.latest_pool_price > 0

\* The slot of u in p holds a price above 0 that the monitor has neither
\* evaluated nor taken into a snapshot
Unevaluated(p, u) ==
    /\ monitor = <<>>
    /\ HasSlot(REAL_POOL_INFO, p, u)
    /\ Slot(REAL_POOL_INFO, p, u).latest_pool_price > 0
    /\ Slot(REAL_POOL_INFO, p, u).pool_price # Slot(REAL_POOL_INFO, p, u).latest_pool_price

\* C29: every event price above 0 is evaluated exactly once, against the
\* price of the event before it.  No price is skipped: an event does not
\* overwrite a latest price that was not evaluated yet.  None is evaluated
\* twice: after the first event of a run, a slot whose latest price was
\* evaluated (pool_price equals it) is not evaluated again, and every
\* evaluation has the slot's latest price as new and its pool_price as old.
C29_EveryPriceEvaluatedOnce ==
    [][/\ \A t \in evtasks :
             Stepped(t, "price", "read_bought") => ~Unevaluated(t.pool_id, t.user_id)
       /\ \A i \in DOMAIN monitor :
             (Evaluates(monitor[i]) /\ count.events <= 1)
                => monitor[i].pool_price # monitor[i].latest_pool_price]_vars

\* C30: every transaction that a SELL decision hands to the relay is built
\* from a sell leg, a list prepared while the slot was long; the buy-leg
\* instructions are not submitted again by a SELL.
C30_SellSubmitsSellLeg ==
    \A t \in dectasks :
        (t.pc = "send" /\ t.kind # "BUY") => LegOf(t.info.swap_buy_ixs) = "sell"

\* The event of task t carries the signature the slot holds, and the user's
\* wrapped-native account is among its account keys
Confirming(t) ==
    /\ t.wsol
    /\ HasSlot(REAL_POOL_INFO, t.pool_id, t.user_id)
    /\ SignatureMatches(Slot(REAL_POOL_INFO, t.pool_id, t.user_id).signature, t.sig)

\* The event task t takes its last step
TaskReturns(t) ==
    /\ t \in evtasks
    /\ \A n \in evtasks' : ~(n.ev = t.ev /\ n.user_id = t.user_id)

\* The positions of process_user_data up to the section that adds the fee
BeforeDelta == BeforeIxs \cup {"read_sig", "toggle", "fee"}

\* C31: the task of an event that carries the slot's pending signature and
\* the user's wrapped-native account does not return before it has toggled
\* is_bought and added the fee, also when the rebuild of the instructions
\* aborts.
C31_ConfirmationSurvivesAbort ==
    [][\A t \in evtasks : (Confirming(t) /\ TaskReturns(t)) => t.pc \notin BeforeDelta]_vars

\* start_bot for u takes the step that writes its fresh slot to the store
Activates(u) == api[u].pc = "start_add_store" /\ api'[u].pc = "idle"

\* C32: a slot is created by Activate alone: in every step after which the
\* store holds more slots of u than before, start_bot for u writes its
\* slot; and while the store holds no slot of u the relay is handed no
\* transaction for u.
C32_SlotOnlyByActivate ==
    [][\A u \in Users :
          /\ SlotCount(REAL_POOL_INFO', u) > SlotCount(REAL_POOL_INFO, u) => Activates(u)
          /\ (Len(submitted') > Len(submitted) /\ submitted'[Len(submitted')].user_id = u)
                => SlotCount(REAL_POOL_INFO, u) > 0]_vars

\* The decision task t takes a step from the position pc
StepsFrom(t, pc) == t \in dectasks /\ t.pc = pc /\ t \notin dectasks'

\* C33: cleanup_bot_after_sell goes from save_trade_metrics on to both
\* removals whatever became of the TradeRecord: the step that persists (or
\* fails to) leaves no entry of the user in USER_LIST and takes the task on
\* to the store section, and that section leaves no slot of the user.
C33_CleanupRemovesWhateverPersisted ==
    [][\A t \in dectasks :
          /\ StepsFrom(t, "remove_users") =>
                /\ EntryCount(USER_LIST', t.info.user_id) = 0
                /\ \E n \in dectasks' : n.id = t.id /\ n.pc = "remove_store"
          /\ StepsFrom(t, "remove_store") =>
                SlotCount(REAL_POOL_INFO', t.info.user_id) = 0]_vars

\* A later call for u is under way: Stop(u), or Activate(u) once more
CalledAgain(u) ==
    api[u].pc \in {"stop_remove_users", "stop_remove_store", "stop_sell",
                   "start_cleanup_store", "start_load", "start_add_user"}

\* C34: once start_bot for u stands before its last section (it returns
\* success after it), then, unless a later call for u follows, u is
\* eventually in the registry with a slot in the store, also when the
\* registry's write lock timed out and the push was handed to the spawned
\* retry.
C34_ActivatedEventuallyPresent ==
    \A u \in Users :
        (api[u].pc = "start_add_store")
           ~> \/ (EntryCount(USER_LIST, u) > 0 /\ SlotCount(REAL_POOL_INFO, u) > 0)
              \/ CalledAgain(u)

\* The instructions the slot of u on p holds (none without a slot)
PreparedOf(store, p, u) == IF HasSlot(store, p, u) THEN Slot(store, p, u).swap_buy_ixs ELSE <<>>

\* The event task t returns from the rebuild: before the section that
\* writes the instructions has run
AbortsRebuild(t) == t.pc \in BeforeIxs /\ TaskReturns(t)

\* C35: when the rebuild of an event aborts (failed balance lookup, missing
\* bucket), the slot's prepared instructions keep the value they had.
C35_AbortKeepsPrepared ==
    [][\A t \in evtasks :
          AbortsRebuild(t) =>
              PreparedOf(REAL_POOL_INFO', t.pool_id, t.user_id)
                 = PreparedOf(REAL_POOL_INFO, t.pool_id, t.user_id)]_vars

\* The instruction lists a completed rebuild at the slot's latest price
\* would have written
RebuiltAt(price) ==
    {PreparedIxs(p, u, b, r) : p \in Pools, u \in Users, b \in BOOLEAN,
                               r \in {x \in ReservePairs : PoolPrice(x[1], x[2]) = price}}

\* C35 witness: every event task has returned, and a slot holds the price
\* of the last event with instructions of an earlier one: that event's
\* rebuild aborted and the earlier instructions are still there
C35_Witness ==
    /\ evtasks = {}
    /\ \E p \in Pools, u \in Users :
          /\ HasSlot(REAL_POOL_INFO, p, u)
          /\ PreparedOf(REAL_POOL_INFO, p, u) # <<>>
          /\ PreparedOf(REAL_POOL_INFO, p, u) \notin RebuiltAt(Slot(REAL_POOL_INFO, p, u).latest_pool_price)

\* The event task t writes the instructions it rebuilt
WritesIxs(t) == t \in evtasks /\ t.pc = "write_ixs" /\ [t EXCEPT !.pc = "read_sig"] \in evtasks'

\* The bound of the swap among the instructions ixs
QuoteOf(ixs) == {ixs[i].quote : i \in {j \in DOMAIN ixs : ixs[j].op \in SwapOps}}

\* The bound with the percent divided by 100: the minimum out of a
\* constant-product swap less 0.3 %, the 1.0025-fold quote of the other
\* family raised (buy, maximum in) or lowered (sell, minimum out)
PercentBound(p, u, has_bought, r) ==
    LET amount_in == AmountIn(u, has_bought)
        slippage == IF has_bought THEN BotSetting(u).exit_slippage ELSE BotSetting(u).entry_slippage
    IN  IF Family(p) = "raydium"
        THEN (997 * (100 - slippage) * amount_in * r[2]) \div (100000 * (r[1] + amount_in))
        ELSE IF has_bought
             THEN AsU64(SolTokenQuote(amount_in, r[2], r[1]) * 10025 * (100 - slippage), 1000000)
             ELSE AsU64(SolTokenQuote(amount_in, r[1], r[2]) * 10025 * (100 + slippage), 1000000)

\* C36: the bound of every swap instruction an event writes applies the
\* slippage as a percent: (1 - slippage / 100) for a minimum out,
\* (1 + slippage / 100) for a maximum in, entry_slippage on the buy leg and
\* exit_slippage on the sell leg, in both families.
C36_SlippageIsPercent ==
    [][\A t \in evtasks :
          (WritesIxs(t) /\ HasSlot(REAL_POOL_INFO, t.pool_id, t.user_id)) =>
              QuoteOf(PreparedOf(REAL_POOL_INFO', t.pool_id, t.user_id))
                 = {PercentBound(t.pool_id, t.user_id, t.has_bought, t.reserves)}]_vars

\* C37: every bucket of the store holds at least one slot: the operations
\* that remove slots (Activate, Stop, both cleanups) remove the buckets they
\* empty, and no operation inserts an empty bucket.
C37_NoEmptyBucket ==
    \A p \in DOMAIN REAL_POOL_INFO : REAL_POOL_INFO[p] # <<>>

\* C37 witness: the cleanup after an exit has removed the last slot of its
\* pool, no task is left, and the store has no bucket
C37_Witness ==
    /\ trades # <<>>
    /\ dectasks = {}
    /\ evtasks = {}
    /\ DOMAIN REAL_POOL_INFO = {}

\* Two suspended calls or tasks wait for each other: each holds the guard
\* of the lock the other awaits
CircularWait(a, b) ==
    /\ AwaitedAt(a) \in GuardsHeldAt(b)
    /\ AwaitedAt(b) \in GuardsHeldAt(a)

BeforeUnwrap == {"check", "check_user", "insert", "push"}

\* The positions of a decision's task whose step unwraps the bucket
DecisionUnwraps == {"fire", "send", "cleanup", "write_duration"}

\* C39: whenever a task looks up its pool's bucket and unwraps it, the
\* bucket is there, also when Stop, Activate or a cleanup runs at the same
\* time: no task aborts on a missing bucket, and no signature the relay
\* returned is lost for it.
C39_BucketThereWhenUnwrapped ==
    [][/\ \A t \in evtasks :
             (t \notin evtasks' /\ t.pc \notin BeforeUnwrap) => ~Panics(t)
       /\ \A t \in dectasks :
             (t \notin dectasks' /\ t.pc \in DecisionUnwraps) => Unwraps(t)]_vars

\* The trade records persisted for user u
RecordsOf(u) == SelectSeq(trades, LAMBDA r : r.user_id = u)

\* C40: within one lifetime of a slot the cleanup after the exit persists at
\* most one trade record, also when several evaluations observe a sell
\* condition before the first cleanup has removed the slot.  (Under
\* SpecExit every decision acts on the slot of one activation.)
C40_OneRecordPerLifetime ==
    \A u \in Users : Len(RecordsOf(u)) <= 1

====
